---------------------------- MODULE Spec2Model ----------------------------
(***************************************************************************)
(* Model of the pure validators and helpers of                             *)
(* @radiantblockchain/constants (src/src/wave.ts).                         *)
(*                                                                         *)
(* The package keeps no state of its own: every export is a constant table *)
(* or a pure function.  The state of the model is a call of a client:      *)
(* which function (fn), with which argument (arg), whether it has returned *)
(* (pc) and what came back (ret); together with the objects that live on   *)
(* between calls (heap) and the records the builders have returned to the  *)
(* client (made).  A string is modelled as a sequence of one-character     *)
(* strings, a number[] as a sequence of integers, a returned object as a   *)
(* record that has exactly the fields the object has, and a thrown Error   *)
(* as [threw |-> TRUE, message |-> ...].                                   *)
(***************************************************************************)
EXTENDS Integers, Sequences, FiniteSets, TLC

VARIABLES pc, fn, arg, ret, heap, made

vars == <<pc, fn, arg, ret, heap, made>>

-----------------------------------------------------------------------------
(* Bounds of the model                                                     *)

\* longest protocol array handed to validateProtocols
MaxProtocols == 4

\* longest name tried in full over NameChars
MaxNameLen == 5

\* longest head and tail put around the filler of a name near the length limit
MaxNameEdge == 1

\* longest domain tried in full over DomainChars
MaxDomainLen == 6

\* longest head and tail put around the labels of a domain near the depth limit
MaxDomainEdge == 1

\* longest string handed to the character codec in place of one character
MaxCharArgLen == 2

\* longest name handed to createWaveMetadata with every choice of the other
\* arguments
MaxBuilderNameLen == 2

\* records a client has the builders make before it stops calling them
MaxRecords == 2

\* flags of the table or'ed together in a flags value handed to the flag
\* helpers
MaxFlagsCombined == 1

\* integers tried on each side of the byte values as opcodes
OpcodeMargin == 2

\* longest label list handed to joinLabels
MaxLabels == 3

\* ids in a list before it is padded past GlyphLimits.MAX_PROTOCOLS
MaxLongProtocols == 2

\* how many leading letters of a network name are put in upper case
MaxUpperCased == 2

\* how far outside the valid range the indices handed to the codec go
IndexMargin == 2

-----------------------------------------------------------------------------
(* Generic helpers: Array.prototype.includes, minimum of a set, all        *)
(* sequences over S up to a length, the elements of a sequence.            *)

includes(s, x) == \E i \in 1..Len(s) : s[i] = x

Min(S) == CHOOSE m \in S : \A n \in S : m <= n

SeqsUpTo(S, n) == UNION {[1..k -> S] : k \in 0..n}

\* the elements of a sequence, as a set
Ids(s) == {s[i] : i \in 1..Len(s)}

-----------------------------------------------------------------------------
(* Glyph protocol ids and the combination tables                           *)

GLYPH_FT == 1
GLYPH_NFT == 2
GLYPH_DAT == 3
GLYPH_DMINT == 4
GLYPH_MUT == 5
GLYPH_BURN == 6
GLYPH_CONTAINER == 7
GLYPH_ENCRYPTED == 8
GLYPH_TIMELOCK == 9
GLYPH_AUTHORITY == 10
GLYPH_WAVE == 11

\* Object.entries(GlyphProtocol), in insertion order
GlyphProtocol ==
  << <<"GLYPH_FT", GLYPH_FT>>, <<"GLYPH_NFT", GLYPH_NFT>>,
     <<"GLYPH_DAT", GLYPH_DAT>>, <<"GLYPH_DMINT", GLYPH_DMINT>>,
     <<"GLYPH_MUT", GLYPH_MUT>>, <<"GLYPH_BURN", GLYPH_BURN>>,
     <<"GLYPH_CONTAINER", GLYPH_CONTAINER>>,
     <<"GLYPH_ENCRYPTED", GLYPH_ENCRYPTED>>,
     <<"GLYPH_TIMELOCK", GLYPH_TIMELOCK>>,
     <<"GLYPH_AUTHORITY", GLYPH_AUTHORITY>>,
     <<"GLYPH_WAVE", GLYPH_WAVE>> >>

\* the name of the first entry whose value is id; a template literal prints
\* the undefined of an unknown id as "undefined"
getProtocolName(id) ==
  LET hits == {k \in 1..Len(GlyphProtocol) : GlyphProtocol[k][2] = id}
  IN  IF hits = {} THEN "undefined" ELSE GlyphProtocol[Min(hits)][1]

\* mutant: the table without an entry for CONTAINER
PROTOCOL_REQUIREMENTS_noContainer ==
  (GLYPH_DMINT :> <<GLYPH_FT>>) @@
  (GLYPH_MUT :> <<GLYPH_NFT>>) @@
  (GLYPH_ENCRYPTED :> <<GLYPH_NFT>>) @@
  (GLYPH_TIMELOCK :> <<GLYPH_ENCRYPTED>>) @@
  (GLYPH_AUTHORITY :> <<GLYPH_NFT>>) @@
  (GLYPH_WAVE :> <<GLYPH_NFT, GLYPH_MUT>>)

PROTOCOL_REQUIREMENTS ==
  (GLYPH_DMINT :> <<GLYPH_FT>>) @@
  (GLYPH_MUT :> <<GLYPH_NFT>>) @@
  (GLYPH_CONTAINER :> <<GLYPH_NFT>>) @@
  (GLYPH_ENCRYPTED :> <<GLYPH_NFT>>) @@
  (GLYPH_TIMELOCK :> <<GLYPH_ENCRYPTED>>) @@
  (GLYPH_AUTHORITY :> <<GLYPH_NFT>>) @@
  (GLYPH_WAVE :> <<GLYPH_NFT, GLYPH_MUT>>)

PROTOCOL_EXCLUSIONS == << <<GLYPH_FT, GLYPH_NFT>> >>

PROTOCOLS_REQUIRE_BASE ==
  <<GLYPH_DMINT, GLYPH_MUT, GLYPH_BURN, GLYPH_CONTAINER, GLYPH_ENCRYPTED,
    GLYPH_TIMELOCK, GLYPH_AUTHORITY, GLYPH_WAVE>>

\* the size limits; validateProtocols reads none of them
GlyphLimits ==
  [MAX_NAME_SIZE |-> 256, MAX_DESC_SIZE |-> 4096, MAX_PATH_SIZE |-> 512,
   MAX_MIME_SIZE |-> 128, MAX_METADATA_SIZE |-> 262144,
   MAX_COMMIT_ENVELOPE_SIZE |-> 102400,
   MAX_REVEAL_ENVELOPE_A_SIZE |-> 102400,
   MAX_REVEAL_ENVELOPE_B_SIZE |-> 12582912,
   MAX_UPDATE_ENVELOPE_SIZE |-> 65536, MAX_INLINE_FILE_SIZE |-> 1048576,
   MAX_TOTAL_INLINE_SIZE |-> 10485760, MAX_PROTOCOLS |-> 16]

GlyphDefaults ==
  [FT_DECIMALS |-> 8, BURN_CONFIRMATIONS |-> 6, ASERT_HALFLIFE |-> 3600,
   TARGET_MINT_TIME |-> 60, MAX_SUBDOMAIN_DEPTH |-> 5]

-----------------------------------------------------------------------------
(* validateProtocols, check by check                                       *)

\* first loop: the index of the first exclusion pair with both members in
\* the input, 0 when there is none
firstExclusion(protocols) ==
  LET hits == {k \in 1..Len(PROTOCOL_EXCLUSIONS) :
                 /\ includes(protocols, PROTOCOL_EXCLUSIONS[k][1])
                 /\ includes(protocols, PROTOCOL_EXCLUSIONS[k][2])}
  IN  IF hits = {} THEN 0 ELSE Min(hits)

checkExclusions(protocols) ==
  IF firstExclusion(protocols) # 0
  THEN LET pair == PROTOCOL_EXCLUSIONS[firstExclusion(protocols)]
       IN  [valid |-> FALSE,
            error |-> "Protocols " \o getProtocolName(pair[1]) \o " and "
                      \o getProtocolName(pair[2]) \o " are mutually exclusive"]
  ELSE [valid |-> TRUE]

\* mutant: the inner loop stops after the first requirement of a protocol
missingRequirements_firstOnly(protocols) ==
  {ij \in (1..Len(protocols)) \X {1} :
     /\ protocols[ij[1]] \in DOMAIN PROTOCOL_REQUIREMENTS
     /\ ~includes(protocols, PROTOCOL_REQUIREMENTS[protocols[ij[1]]][1])}

\* second loop: the positions <<i, j>> at which requirement j of
\* protocols[i] is not in the input
missingRequirements(protocols) ==
  {ij \in (1..Len(protocols)) \X (1..2) :
     /\ protocols[ij[1]] \in DOMAIN PROTOCOL_REQUIREMENTS
     /\ ij[2] <= Len(PROTOCOL_REQUIREMENTS[protocols[ij[1]]])
     /\ ~includes(protocols, PROTOCOL_REQUIREMENTS[protocols[ij[1]]][ij[2]])}

\* the first of them in the order the nested loops visit them
firstMissing(protocols) ==
  LET miss == missingRequirements(protocols)
  IN  CHOOSE ij \in miss :
        \A kl \in miss : ij[1] < kl[1] \/ (ij[1] = kl[1] /\ ij[2] <= kl[2])

checkRequirements(protocols) ==
  IF missingRequirements(protocols) # {}
  THEN LET ij == firstMissing(protocols)
           protocol == protocols[ij[1]]
       IN  [valid |-> FALSE,
            error |-> "Protocol " \o getProtocolName(protocol) \o " requires "
                      \o getProtocolName(PROTOCOL_REQUIREMENTS[protocol][ij[2]])]
  ELSE [valid |-> TRUE]

\* mutant: "alone" decided on the set of ids instead of the array length
checkAlone_asSet(protocols) ==
  IF /\ Len(protocols) >= 1
     /\ \A i \in 1..Len(protocols) : protocols[i] = protocols[1]
     /\ includes(PROTOCOLS_REQUIRE_BASE, protocols[1])
  THEN [valid |-> FALSE,
        error |-> "Protocol " \o getProtocolName(protocols[1])
                  \o " cannot exist alone"]
  ELSE [valid |-> TRUE]

checkAlone(protocols) ==
  IF Len(protocols) = 1 /\ includes(PROTOCOLS_REQUIRE_BASE, protocols[1])
  THEN [valid |-> FALSE,
        error |-> "Protocol " \o getProtocolName(protocols[1])
                  \o " cannot exist alone"]
  ELSE [valid |-> TRUE]

\* mutant: the BURN check left out as if the alone check covered it
checkBurn_dropped(protocols) == [valid |-> TRUE]

checkBurn(protocols) ==
  IF /\ includes(protocols, GLYPH_BURN)
     /\ ~includes(protocols, GLYPH_FT)
     /\ ~includes(protocols, GLYPH_NFT)
  THEN [valid |-> FALSE, error |-> "BURN must accompany FT or NFT"]
  ELSE [valid |-> TRUE]

\* mutant: the alone check moved in front of the requirement loop
validateProtocols_aloneFirst(protocols) ==
  IF ~checkExclusions(protocols).valid THEN checkExclusions(protocols)
  ELSE IF ~checkAlone(protocols).valid THEN checkAlone(protocols)
  ELSE IF ~checkRequirements(protocols).valid THEN checkRequirements(protocols)
  ELSE checkBurn(protocols)

\* mutant: a list longer than GlyphLimits.MAX_PROTOCOLS rejected first
validateProtocols_limited(protocols) ==
  IF Len(protocols) > GlyphLimits.MAX_PROTOCOLS
  THEN [valid |-> FALSE, error |-> "Too many protocols"]
  ELSE IF ~checkExclusions(protocols).valid THEN checkExclusions(protocols)
  ELSE IF ~checkRequirements(protocols).valid THEN checkRequirements(protocols)
  ELSE IF ~checkAlone(protocols).valid THEN checkAlone(protocols)
  ELSE checkBurn(protocols)

\* the four checks in the order of the code, the first failure returned
validateProtocols(protocols) ==
  IF ~checkExclusions(protocols).valid THEN checkExclusions(protocols)
  ELSE IF ~checkRequirements(protocols).valid THEN checkRequirements(protocols)
  ELSE IF ~checkAlone(protocols).valid THEN checkAlone(protocols)
  ELSE checkBurn(protocols)

-----------------------------------------------------------------------------
(* Strings: the WAVE alphabet, String.prototype.toLowerCase / startsWith / *)
(* endsWith / includes on sequences of characters                          *)

\* mutant: the digits put in front of the letters
WAVE_CHARS_digitsFirst ==
  <<"0", "1", "2", "3", "4", "5", "6", "7", "8", "9",
    "a", "b", "c", "d", "e", "f", "g", "h", "i", "j", "k", "l", "m",
    "n", "o", "p", "q", "r", "s", "t", "u", "v", "w", "x", "y", "z", "-">>

WAVE_CHARS ==
  <<"a", "b", "c", "d", "e", "f", "g", "h", "i", "j", "k", "l", "m",
    "n", "o", "p", "q", "r", "s", "t", "u", "v", "w", "x", "y", "z",
    "0", "1", "2", "3", "4", "5", "6", "7", "8", "9", "-">>

WaveLimits ==
  [MIN_NAME_LENGTH |-> 1, MAX_NAME_LENGTH |-> 63,
   MAX_SUBDOMAIN_DEPTH |-> 127, CHAR_COUNT |-> 37]

\* the letters toLowerCase changes, and what it changes them to
UPPER ==
  <<"A", "B", "C", "D", "E", "F", "G", "H", "I", "J", "K", "L", "M",
    "N", "O", "P", "Q", "R", "S", "T", "U", "V", "W", "X", "Y", "Z">>

LOWER ==
  <<"a", "b", "c", "d", "e", "f", "g", "h", "i", "j", "k", "l", "m",
    "n", "o", "p", "q", "r", "s", "t", "u", "v", "w", "x", "y", "z">>

toLowerCaseChar(c) ==
  IF \E i \in 1..Len(UPPER) : UPPER[i] = c
  THEN LOWER[CHOOSE i \in 1..Len(UPPER) : UPPER[i] = c]
  ELSE c

toLowerCase(s) == [i \in 1..Len(s) |-> toLowerCaseChar(s[i])]

startsWith(s, prefix) ==
  Len(s) >= Len(prefix) /\ SubSeq(s, 1, Len(prefix)) = prefix

endsWith(s, suffix) ==
  Len(s) >= Len(suffix)
    /\ SubSeq(s, Len(s) - Len(suffix) + 1, Len(s)) = suffix

includesString(s, sub) ==
  \E i \in 1..(Len(s) - Len(sub) + 1) : SubSeq(s, i, i + Len(sub) - 1) = sub

\* the characters of s as one string, as a template literal prints them
RECURSIVE Text(_)
Text(s) == IF s = <<>> THEN "" ELSE s[1] \o Text(Tail(s))

-----------------------------------------------------------------------------
(* The character codec.  A call returns [threw |-> FALSE, value |-> v] or  *)
(* throws: [threw |-> TRUE, message |-> m].                                *)

\* String.prototype.indexOf: the 0-based index of the first occurrence of
\* sub in s, -1 when there is none
indexOf(s, sub) ==
  LET hits == {i \in 1..(Len(s) - Len(sub) + 1) :
                 SubSeq(s, i, i + Len(sub) - 1) = sub}
  IN  IF hits = {} THEN -1 ELSE Min(hits) - 1

\* mutant: the lookup without toLowerCase
charToIndex_caseSensitive(char) ==
  IF Len(char) # 1
  THEN [threw |-> TRUE,
        message |-> "Expected single character, got: \"" \o Text(char) \o "\""]
  ELSE IF indexOf(WAVE_CHARS, char) = -1
  THEN [threw |-> TRUE,
        message |-> "Invalid WAVE character: \"" \o Text(char) \o "\""]
  ELSE [threw |-> FALSE, value |-> indexOf(WAVE_CHARS, char)]

\* mutant: the single-character check dropped
charToIndex_noLengthCheck(char) ==
  LET idx == indexOf(WAVE_CHARS, toLowerCase(char))
  IN  IF idx = -1
      THEN [threw |-> TRUE,
            message |-> "Invalid WAVE character: \"" \o Text(char) \o "\""]
      ELSE [threw |-> FALSE, value |-> idx]

charToIndex(char) ==
  IF Len(char) # 1
  THEN [threw |-> TRUE,
        message |-> "Expected single character, got: \"" \o Text(char) \o "\""]
  ELSE LET idx == indexOf(WAVE_CHARS, toLowerCase(char))
       IN  IF idx = -1
           THEN [threw |-> TRUE,
                 message |-> "Invalid WAVE character: \"" \o Text(char) \o "\""]
           ELSE [threw |-> FALSE, value |-> idx]

indexToChar(index) ==
  IF index < 0 \/ index >= Len(WAVE_CHARS)
  THEN [threw |-> TRUE,
        message |-> "Invalid WAVE index: " \o ToString(index)
                    \o " (must be 0-36)"]
  ELSE [threw |-> FALSE, value |-> <<WAVE_CHARS[index + 1]>>]

charToOutputIndex(char) ==
  IF charToIndex(char).threw THEN charToIndex(char)
  ELSE [threw |-> FALSE, value |-> charToIndex(char).value + 1]

outputIndexToChar(outputIndex) ==
  IF outputIndex < 1 \/ outputIndex > 37
  THEN [threw |-> TRUE,
        message |-> "Invalid branch output index: " \o ToString(outputIndex)
                    \o " (must be 1-37)"]
  ELSE indexToChar(outputIndex - 1)

-----------------------------------------------------------------------------
(* validateWaveName and isPunycode                                         *)

\* mutant: the length limit off by one
exceedsMaxLength_offByOne(name) == Len(name) >= WaveLimits.MAX_NAME_LENGTH

exceedsMaxLength(name) == Len(name) > WaveLimits.MAX_NAME_LENGTH

consecutiveHyphens(name) ==
  /\ includesString(name, <<"-", "-">>)
  /\ ~startsWith(name, <<"x", "n", "-", "-">>)

\* the characters of the lowercased name that are not in WAVE_CHARS
invalidPositions(lowerName) ==
  {i \in 1..Len(lowerName) : ~includes(WAVE_CHARS, lowerName[i])}

checkCharacters(name) ==
  LET lowerName == toLowerCase(name)
  IN  IF invalidPositions(lowerName) # {}
      THEN [valid |-> FALSE,
            error |-> "Invalid character: \""
                      \o lowerName[Min(invalidPositions(lowerName))] \o "\""]
      ELSE [valid |-> TRUE]

\* mutant: the hyphen checks moved in front of the length check
validateWaveName_hyphensFirst(name) ==
  IF Len(name) = 0
  THEN [valid |-> FALSE, error |-> "Name cannot be empty"]
  ELSE IF startsWith(name, <<"-">>)
  THEN [valid |-> FALSE, error |-> "Name cannot start with hyphen"]
  ELSE IF endsWith(name, <<"-">>)
  THEN [valid |-> FALSE, error |-> "Name cannot end with hyphen"]
  ELSE IF exceedsMaxLength(name)
  THEN [valid |-> FALSE,
        error |-> "Name exceeds maximum length of "
                  \o ToString(WaveLimits.MAX_NAME_LENGTH)]
  ELSE IF consecutiveHyphens(name)
  THEN [valid |-> FALSE,
        error |-> "Name cannot contain consecutive hyphens (except Punycode prefix)"]
  ELSE checkCharacters(name)

validateWaveName(name) ==
  IF Len(name) = 0
  THEN [valid |-> FALSE, error |-> "Name cannot be empty"]
  ELSE IF exceedsMaxLength(name)
  THEN [valid |-> FALSE,
        error |-> "Name exceeds maximum length of "
                  \o ToString(WaveLimits.MAX_NAME_LENGTH)]
  ELSE IF startsWith(name, <<"-">>)
  THEN [valid |-> FALSE, error |-> "Name cannot start with hyphen"]
  ELSE IF endsWith(name, <<"-">>)
  THEN [valid |-> FALSE, error |-> "Name cannot end with hyphen"]
  ELSE IF consecutiveHyphens(name)
  THEN [valid |-> FALSE,
        error |-> "Name cannot contain consecutive hyphens (except Punycode prefix)"]
  ELSE checkCharacters(name)

isPunycode(name) == startsWith(toLowerCase(name), <<"x", "n", "-", "-">>)

-----------------------------------------------------------------------------
(* parseLabels and validateDomain                                          *)

\* String.prototype.split('.'): every segment between separators, empty or
\* not, so that a string with n separators has n + 1 segments.  Computed by
\* halves: the last segment of the left half and the first segment of the
\* right half are one segment of the whole.
RECURSIVE split(_)
split(s) ==
  IF Len(s) = 0 THEN << <<>> >>
  ELSE IF Len(s) = 1 THEN (IF s[1] = "." THEN << <<>>, <<>> >> ELSE <<s>>)
  ELSE LET half == Len(s) \div 2
           left == split(SubSeq(s, 1, half))
           right == split(SubSeq(s, half + 1, Len(s)))
       IN  SubSeq(left, 1, Len(left) - 1)
             \o <<left[Len(left)] \o right[1]>>
             \o Tail(right)

\* mutant: the empty segments are kept
parseLabels_noFilter(domain) == split(domain)

parseLabels(domain) == SelectSeq(split(domain), LAMBDA label : Len(label) > 0)

\* the indices of the labels validateWaveName rejects
invalidLabels(labels) ==
  {k \in 1..Len(labels) : ~validateWaveName(labels[k]).valid}

\* mutant: an invalid label is thrown instead of reported
validateDomain_throwing(domain) ==
  LET labels == parseLabels(domain)
  IN  IF Len(labels) = 0
      THEN [valid |-> FALSE, error |-> "Domain cannot be empty"]
      ELSE IF Len(labels) > WaveLimits.MAX_SUBDOMAIN_DEPTH
      THEN [valid |-> FALSE,
            error |-> "Domain exceeds maximum depth of "
                      \o ToString(WaveLimits.MAX_SUBDOMAIN_DEPTH)]
      ELSE IF invalidLabels(labels) # {}
      THEN [threw |-> TRUE,
            message |-> "Invalid name: "
              \o validateWaveName(labels[Min(invalidLabels(labels))]).error]
      ELSE [valid |-> TRUE]

validateDomain(domain) ==
  LET labels == parseLabels(domain)
  IN  IF Len(labels) = 0
      THEN [valid |-> FALSE, error |-> "Domain cannot be empty"]
      ELSE IF Len(labels) > WaveLimits.MAX_SUBDOMAIN_DEPTH
      THEN [valid |-> FALSE,
            error |-> "Domain exceeds maximum depth of "
                      \o ToString(WaveLimits.MAX_SUBDOMAIN_DEPTH)]
      ELSE IF invalidLabels(labels) # {}
      THEN LET label == labels[Min(invalidLabels(labels))]
           IN  [valid |-> FALSE,
                error |-> "Invalid label \"" \o Text(label) \o "\": "
                          \o validateWaveName(label).error]
      ELSE [valid |-> TRUE]

-----------------------------------------------------------------------------
(* getCharacterPath                                                        *)

\* the entries of name.toLowerCase().split('').map(...)
characterPath(lower) ==
  [k \in 1..Len(lower) |->
     LET char == <<lower[k]>>
     IN  [char |-> char,
          index |-> charToIndex(char).value,
          outputIndex |-> charToOutputIndex(char).value]]

\* mutant: the path is taken from the name as given, not from its lower case
getCharacterPath_asGiven(name) ==
  LET validation == validateWaveName(name)
  IN  IF ~validation.valid
      THEN [threw |-> TRUE, message |-> "Invalid name: " \o validation.error]
      ELSE [threw |-> FALSE,
            value |-> [k \in 1..Len(name) |->
                         [characterPath(name)[k] EXCEPT !.char = <<name[k]>>]]]

getCharacterPath(name) ==
  LET validation == validateWaveName(name)
      lower == toLowerCase(name)
      throwing == {k \in 1..Len(lower) : charToIndex(<<lower[k]>>).threw}
  IN  IF ~validation.valid
      THEN [threw |-> TRUE, message |-> "Invalid name: " \o validation.error]
      ELSE IF throwing # {}
      THEN charToIndex(<<lower[Min(throwing)]>>)
      ELSE [threw |-> FALSE, value |-> characterPath(lower)]

-----------------------------------------------------------------------------
(* Objects.  Arrays and maps are objects held by reference: the heap maps  *)
(* a reference to the object's content, an array being a sequence and a    *)
(* map a set of <<key, value>> pairs.  The tables of the module are        *)
(* objects like any other.                                                 *)

WaveProtocols ==
  [WAVE_NAME |-> <<GLYPH_NFT, GLYPH_MUT, GLYPH_WAVE>>,
   WAVE_NAME_IMMUTABLE |-> <<GLYPH_NFT, GLYPH_WAVE>>]

WaveSchema ==
  [NAMESPACE |-> "rxd.wave", VERSION |-> "wave_name_v1", TYPE |-> "wave_name"]

\* the heap once the module is loaded
Tables ==
  [WAVE_NAME |-> WaveProtocols.WAVE_NAME,
   WAVE_NAME_IMMUTABLE |-> WaveProtocols.WAVE_NAME_IMMUTABLE,
   WAVE_CHARS |-> WAVE_CHARS,
   PROTOCOL_REQUIREMENTS |-> PROTOCOL_REQUIREMENTS,
   PROTOCOL_EXCLUSIONS |-> PROTOCOL_EXCLUSIONS,
   PROTOCOLS_REQUIRE_BASE |-> PROTOCOLS_REQUIRE_BASE]

\* the reference of the next object created
NewRef(h) == "object" \o ToString(Cardinality(DOMAIN h))

\* {}: an object without properties
EmptyObject == [key \in {} |-> key]

\* null, and a string where null may stand as well
null == [type |-> "null"]

String(s) == [type |-> "string", value |-> s]

-----------------------------------------------------------------------------
(* createWaveMetadata and createZoneUpdate                                 *)

\* mutant: mutable only when asked for
mutableRequested_truthy(options) ==
  "mutable" \in DOMAIN options /\ options.mutable

\* options.mutable !== false
mutableRequested(options) ==
  ~("mutable" \in DOMAIN options /\ options.mutable = FALSE)

\* mutant: the table's own array instead of a copy of it
protocolsOf_shared(h, options) ==
  [ref |-> IF mutableRequested(options)
           THEN "WAVE_NAME" ELSE "WAVE_NAME_IMMUTABLE",
   heap |-> h]

\* [...WaveProtocols.WAVE_NAME] or [...WaveProtocols.WAVE_NAME_IMMUTABLE]: a
\* new array with the items the table's array has now
protocolsOf(h, options) ==
  LET source == IF mutableRequested(options)
                THEN "WAVE_NAME" ELSE "WAVE_NAME_IMMUTABLE"
  IN  [ref |-> NewRef(h), heap |-> (NewRef(h) :> h[source]) @@ h]

\* mutant: the name stored in lower case
waveNameData_lowercased(name, parentRef, zone) ==
  [name |-> toLowerCase(name), parent |-> parentRef, zone |-> zone]

\* data: { name, parent: parentRef, zone }: the zone is the caller's map
\* itself, not a copy of it
waveNameData(name, parentRef, zone) ==
  [name |-> name, parent |-> parentRef, zone |-> zone]

\* mutant: the description attached whenever the property is there
descriptionOf_supplied(options) ==
  IF "description" \in DOMAIN options
  THEN [desc |-> options.description]
  ELSE EmptyObject

\* if (options.description) metadata.desc = options.description: undefined
\* and the empty string are falsy
descriptionOf(options) ==
  IF "description" \in DOMAIN options /\ options.description # ""
  THEN [desc |-> options.description]
  ELSE EmptyObject

\* if (options.controllerRef) metadata.mutable.controller = ...
controllerOf(options) ==
  IF "controllerRef" \in DOMAIN options /\ options.controllerRef # ""
  THEN [controller |-> options.controllerRef]
  ELSE EmptyObject

mutableOf(options) ==
  IF mutableRequested(options)
  THEN [mutable |-> [allowed |-> TRUE, fields |-> <<"/app/data/zone">>]
                      @@ controllerOf(options)]
  ELSE EmptyObject

\* the record built once the name is accepted, and the heap with its p array
buildWaveMetadata(h, name, parentRef, zone, options) ==
  LET p == protocolsOf(h, options)
      metadata == [v |-> 2,
                   type |-> "wave_name",
                   p |-> p.ref,
                   name |-> name,
                   app |-> [namespace |-> WaveSchema.NAMESPACE,
                            schema |-> WaveSchema.VERSION,
                            data |-> waveNameData(name, parentRef, zone)]]
  IN  [result |-> [threw |-> FALSE,
                   value |-> metadata @@ descriptionOf(options)
                                      @@ mutableOf(options)],
       heap |-> p.heap]

\* mutant: the name is not validated
createWaveMetadata_unchecked(h, name, parentRef, zone, options) ==
  buildWaveMetadata(h, name, parentRef, zone, options)

createWaveMetadata(h, name, parentRef, zone, options) ==
  LET validation == validateWaveName(name)
  IN  IF ~validation.valid
      THEN [result |-> [threw |-> TRUE,
                        message |-> "Invalid name: " \o validation.error],
            heap |-> h]
      ELSE buildWaveMetadata(h, name, parentRef, zone, options)

\* mutant: an empty target is refused
createZoneUpdate_validating(targetRef, updates, controllerRef) ==
  IF targetRef = ""
  THEN [threw |-> TRUE, message |-> "Invalid target"]
  ELSE [threw |-> FALSE,
        value |-> [v |-> 2,
                   schema |-> "glyph_update_v1",
                   target |-> targetRef,
                   update |-> [op |-> "merge", path |-> "/app/data/zone",
                               value |-> updates],
                   auth |-> [controller |-> controllerRef]]]

\* the value is the caller's map itself, not a copy of it
createZoneUpdate(targetRef, updates, controllerRef) ==
  [threw |-> FALSE,
   value |-> [v |-> 2,
              schema |-> "glyph_update_v1",
              target |-> targetRef,
              update |-> [op |-> "merge", path |-> "/app/data/zone",
                          value |-> updates],
              auth |-> [controller |-> controllerRef]]]

-----------------------------------------------------------------------------
(* Script flags (src/src/flags.ts).  The bitwise operators of the language *)
(* work on 32-bit two's complement integers: bit 31 is the sign.           *)

\* bits 0..30 of a 32-bit integer, as a natural number
Low(n) == IF n < 0 THEN (n + 2147483647) + 1 ELSE n

\* the positions of the bits set in a 32-bit integer
Bits(n) ==
  {i \in 0..30 : (Low(n) \div (2 ^ i)) % 2 = 1}
    \cup (IF n < 0 THEN {31} ELSE {})

RECURSIVE SumOfPowers(_)
SumOfPowers(S) ==
  IF S = {} THEN 0
  ELSE LET i == CHOOSE j \in S : TRUE
       IN  (2 ^ i) + SumOfPowers(S \ {i})

\* the 32-bit integer with exactly these bits set
FromBits(S) ==
  IF 31 \in S
  THEN (SumOfPowers(S \ {31}) - 2147483647) - 1
  ELSE SumOfPowers(S)

\* a & b
BitAnd(a, b) == FromBits(Bits(a) \cap Bits(b))

\* a | b
BitOr(a, b) == FromBits(Bits(a) \cup Bits(b))

\* ~a
BitNot(a) == FromBits((0..31) \ Bits(a))

\* a << n
ShiftLeft(a, n) == FromBits({i + n : i \in Bits(a)} \cap (0..31))

ScriptFlags ==
  [SCRIPT_VERIFY_NONE |-> 0,
   SCRIPT_VERIFY_P2SH |-> ShiftLeft(1, 0),
   SCRIPT_VERIFY_STRICTENC |-> ShiftLeft(1, 1),
   SCRIPT_VERIFY_DERSIG |-> ShiftLeft(1, 2),
   SCRIPT_VERIFY_LOW_S |-> ShiftLeft(1, 3),
   SCRIPT_VERIFY_SIGPUSHONLY |-> ShiftLeft(1, 5),
   SCRIPT_VERIFY_MINIMALDATA |-> ShiftLeft(1, 6),
   SCRIPT_VERIFY_DISCOURAGE_UPGRADABLE_NOPS |-> ShiftLeft(1, 7),
   SCRIPT_VERIFY_CLEANSTACK |-> ShiftLeft(1, 8),
   SCRIPT_VERIFY_CHECKLOCKTIMEVERIFY |-> ShiftLeft(1, 9),
   SCRIPT_VERIFY_CHECKSEQUENCEVERIFY |-> ShiftLeft(1, 10),
   SCRIPT_VERIFY_MINIMALIF |-> ShiftLeft(1, 13),
   SCRIPT_VERIFY_NULLFAIL |-> ShiftLeft(1, 14),
   SCRIPT_ENABLE_SIGHASH_FORKID |-> ShiftLeft(1, 16),
   SCRIPT_DISALLOW_SEGWIT_RECOVERY |-> ShiftLeft(1, 20),
   SCRIPT_ENABLE_SCHNORR_MULTISIG |-> ShiftLeft(1, 21),
   SCRIPT_VERIFY_INPUT_SIGCHECKS |-> ShiftLeft(1, 22),
   SCRIPT_ENFORCE_SIGCHECKS |-> ShiftLeft(1, 23),
   SCRIPT_64_BIT_INTEGERS |-> ShiftLeft(1, 24),
   SCRIPT_NATIVE_INTROSPECTION |-> ShiftLeft(1, 25),
   SCRIPT_ENHANCED_REFERENCES |-> ShiftLeft(1, 26),
   SCRIPT_PUSH_TX_STATE |-> ShiftLeft(1, 27)]

STANDARD_SCRIPT_VERIFY_FLAGS ==
  FromBits(
    UNION {Bits(ScriptFlags[name]) :
             name \in {"SCRIPT_VERIFY_P2SH", "SCRIPT_VERIFY_STRICTENC",
                       "SCRIPT_VERIFY_DERSIG", "SCRIPT_VERIFY_LOW_S",
                       "SCRIPT_VERIFY_SIGPUSHONLY",
                       "SCRIPT_VERIFY_MINIMALDATA",
                       "SCRIPT_VERIFY_DISCOURAGE_UPGRADABLE_NOPS",
                       "SCRIPT_VERIFY_CLEANSTACK",
                       "SCRIPT_VERIFY_CHECKLOCKTIMEVERIFY",
                       "SCRIPT_VERIFY_CHECKSEQUENCEVERIFY",
                       "SCRIPT_VERIFY_MINIMALIF", "SCRIPT_VERIFY_NULLFAIL",
                       "SCRIPT_ENABLE_SIGHASH_FORKID",
                       "SCRIPT_64_BIT_INTEGERS",
                       "SCRIPT_NATIVE_INTROSPECTION",
                       "SCRIPT_ENHANCED_REFERENCES"}})

hasFlag(flags, flag) == BitAnd(flags, flag) # 0

setFlag(flags, flag) == BitOr(flags, flag)

\* mutant: flags & flag in place of flags & ~flag
clearFlag_keepsOnlyFlag(flags, flag) == BitAnd(flags, flag)

clearFlag(flags, flag) == BitAnd(flags, BitNot(flag))

-----------------------------------------------------------------------------
(* Opcodes (src/unnamed/part_001)                                          *)

\* the entries of the table, in the order they are written
Opcodes ==
  << <<"OP_0", \H00>>, <<"OP_FALSE", \H00>>, <<"OP_PUSHDATA1", \H4c>>,
     <<"OP_PUSHDATA2", \H4d>>, <<"OP_PUSHDATA4", \H4e>>,
     <<"OP_1NEGATE", \H4f>>, <<"OP_RESERVED", \H50>>, <<"OP_1", \H51>>,
     <<"OP_TRUE", \H51>>, <<"OP_2", \H52>>, <<"OP_3", \H53>>,
     <<"OP_4", \H54>>, <<"OP_5", \H55>>, <<"OP_6", \H56>>, <<"OP_7", \H57>>,
     <<"OP_8", \H58>>, <<"OP_9", \H59>>, <<"OP_10", \H5a>>, <<"OP_11", \H5b>>,
     <<"OP_12", \H5c>>, <<"OP_13", \H5d>>, <<"OP_14", \H5e>>,
     <<"OP_15", \H5f>>, <<"OP_16", \H60>>, <<"OP_NOP", \H61>>,
     <<"OP_VER", \H62>>, <<"OP_IF", \H63>>, <<"OP_NOTIF", \H64>>,
     <<"OP_VERIF", \H65>>, <<"OP_VERNOTIF", \H66>>, <<"OP_ELSE", \H67>>,
     <<"OP_ENDIF", \H68>>, <<"OP_VERIFY", \H69>>, <<"OP_RETURN", \H6a>>,
     <<"OP_TOALTSTACK", \H6b>>, <<"OP_FROMALTSTACK", \H6c>>,
     <<"OP_2DROP", \H6d>>, <<"OP_2DUP", \H6e>>, <<"OP_3DUP", \H6f>>,
     <<"OP_2OVER", \H70>>, <<"OP_2ROT", \H71>>, <<"OP_2SWAP", \H72>>,
     <<"OP_IFDUP", \H73>>, <<"OP_DEPTH", \H74>>, <<"OP_DROP", \H75>>,
     <<"OP_DUP", \H76>>, <<"OP_NIP", \H77>>, <<"OP_OVER", \H78>>,
     <<"OP_PICK", \H79>>, <<"OP_ROLL", \H7a>>, <<"OP_ROT", \H7b>>,
     <<"OP_SWAP", \H7c>>, <<"OP_TUCK", \H7d>>, <<"OP_CAT", \H7e>>,
     <<"OP_SPLIT", \H7f>>, <<"OP_NUM2BIN", \H80>>, <<"OP_BIN2NUM", \H81>>,
     <<"OP_SIZE", \H82>>, <<"OP_INVERT", \H83>>, <<"OP_AND", \H84>>,
     <<"OP_OR", \H85>>, <<"OP_XOR", \H86>>, <<"OP_EQUAL", \H87>>,
     <<"OP_EQUALVERIFY", \H88>>, <<"OP_RESERVED1", \H89>>,
     <<"OP_RESERVED2", \H8a>>, <<"OP_1ADD", \H8b>>, <<"OP_1SUB", \H8c>>,
     <<"OP_2MUL", \H8d>>, <<"OP_2DIV", \H8e>>, <<"OP_NEGATE", \H8f>>,
     <<"OP_ABS", \H90>>, <<"OP_NOT", \H91>>, <<"OP_0NOTEQUAL", \H92>>,
     <<"OP_ADD", \H93>>, <<"OP_SUB", \H94>>, <<"OP_MUL", \H95>>,
     <<"OP_DIV", \H96>>, <<"OP_MOD", \H97>>, <<"OP_LSHIFT", \H98>>,
     <<"OP_RSHIFT", \H99>>, <<"OP_BOOLAND", \H9a>>, <<"OP_BOOLOR", \H9b>>,
     <<"OP_NUMEQUAL", \H9c>>, <<"OP_NUMEQUALVERIFY", \H9d>>,
     <<"OP_NUMNOTEQUAL", \H9e>>, <<"OP_LESSTHAN", \H9f>>,
     <<"OP_GREATERTHAN", \Ha0>>, <<"OP_LESSTHANOREQUAL", \Ha1>>,
     <<"OP_GREATERTHANOREQUAL", \Ha2>>, <<"OP_MIN", \Ha3>>,
     <<"OP_MAX", \Ha4>>, <<"OP_WITHIN", \Ha5>>, <<"OP_RIPEMD160", \Ha6>>,
     <<"OP_SHA1", \Ha7>>, <<"OP_SHA256", \Ha8>>, <<"OP_HASH160", \Ha9>>,
     <<"OP_HASH256", \Haa>>, <<"OP_CODESEPARATOR", \Hab>>,
     <<"OP_CHECKSIG", \Hac>>, <<"OP_CHECKSIGVERIFY", \Had>>,
     <<"OP_CHECKMULTISIG", \Hae>>, <<"OP_CHECKMULTISIGVERIFY", \Haf>>,
     <<"OP_NOP1", \Hb0>>, <<"OP_CHECKLOCKTIMEVERIFY", \Hb1>>,
     <<"OP_NOP2", \Hb1>>, <<"OP_CHECKSEQUENCEVERIFY", \Hb2>>,
     <<"OP_NOP3", \Hb2>>, <<"OP_NOP4", \Hb3>>, <<"OP_NOP5", \Hb4>>,
     <<"OP_NOP6", \Hb5>>, <<"OP_NOP7", \Hb6>>, <<"OP_NOP8", \Hb7>>,
     <<"OP_NOP9", \Hb8>>, <<"OP_NOP10", \Hb9>>, <<"OP_CHECKDATASIG", \Hba>>,
     <<"OP_CHECKDATASIGVERIFY", \Hbb>>, <<"OP_REVERSEBYTES", \Hbc>>,
     <<"OP_STATESEPARATOR", \Hbd>>, <<"OP_STATESEPARATORINDEX_UTXO", \Hbe>>,
     <<"OP_STATESEPARATORINDEX_OUTPUT", \Hbf>>, <<"OP_INPUTINDEX", \Hc0>>,
     <<"OP_ACTIVEBYTECODE", \Hc1>>, <<"OP_TXVERSION", \Hc2>>,
     <<"OP_TXINPUTCOUNT", \Hc3>>, <<"OP_TXOUTPUTCOUNT", \Hc4>>,
     <<"OP_TXLOCKTIME", \Hc5>>, <<"OP_UTXOVALUE", \Hc6>>,
     <<"OP_UTXOBYTECODE", \Hc7>>, <<"OP_OUTPOINTTXHASH", \Hc8>>,
     <<"OP_OUTPOINTINDEX", \Hc9>>, <<"OP_INPUTBYTECODE", \Hca>>,
     <<"OP_INPUTSEQUENCENUMBER", \Hcb>>, <<"OP_OUTPUTVALUE", \Hcc>>,
     <<"OP_OUTPUTBYTECODE", \Hcd>>, <<"OP_SHA512_256", \Hce>>,
     <<"OP_HASH512_256", \Hcf>>, <<"OP_PUSHINPUTREF", \Hd0>>,
     <<"OP_REQUIREINPUTREF", \Hd1>>, <<"OP_DISALLOWPUSHINPUTREF", \Hd2>>,
     <<"OP_DISALLOWPUSHINPUTREFSIBLING", \Hd3>>,
     <<"OP_REFHASHDATASUMMARY_UTXO", \Hd4>>,
     <<"OP_REFHASHVALUESUM_UTXOS", \Hd5>>,
     <<"OP_REFHASHDATASUMMARY_OUTPUT", \Hd6>>,
     <<"OP_REFHASHVALUESUM_OUTPUTS", \Hd7>>,
     <<"OP_PUSHINPUTREFSINGLETON", \Hd8>>, <<"OP_REFTYPE_UTXO", \Hd9>>,
     <<"OP_REFTYPE_OUTPUT", \Hda>>, <<"OP_REFVALUESUM_UTXOS", \Hdb>>,
     <<"OP_REFVALUESUM_OUTPUTS", \Hdc>>, <<"OP_REFOUTPUTCOUNT_UTXOS", \Hdd>>,
     <<"OP_REFOUTPUTCOUNT_OUTPUTS", \Hde>>,
     <<"OP_REFOUTPUTCOUNTZEROVALUED_UTXOS", \Hdf>>,
     <<"OP_REFOUTPUTCOUNTZEROVALUED_OUTPUTS", \He0>>,
     <<"OP_REFDATASUMMARY_UTXO", \He1>>, <<"OP_REFDATASUMMARY_OUTPUT", \He2>>,
     <<"OP_CODESCRIPTHASHVALUESUM_UTXOS", \He3>>,
     <<"OP_CODESCRIPTHASHVALUESUM_OUTPUTS", \He4>>,
     <<"OP_CODESCRIPTHASHOUTPUTCOUNT_UTXOS", \He5>>,
     <<"OP_CODESCRIPTHASHOUTPUTCOUNT_OUTPUTS", \He6>>,
     <<"OP_CODESCRIPTHASHZEROVALUEDOUTPUTCOUNT_UTXOS", \He7>>,
     <<"OP_CODESCRIPTHASHZEROVALUEDOUTPUTCOUNT_OUTPUTS", \He8>>,
     <<"OP_CODESCRIPTBYTECODE_UTXO", \He9>>,
     <<"OP_CODESCRIPTBYTECODE_OUTPUT", \Hea>>,
     <<"OP_STATESCRIPTBYTECODE_UTXO", \Heb>>,
     <<"OP_STATESCRIPTBYTECODE_OUTPUT", \Hec>>, <<"OP_PUSH_TX_STATE", \Hed>>,
     <<"INVALIDOPCODE", \Hff>> >>

\* the positions of the entries with this value
entriesOf(value) == {i \in 1..Len(Opcodes) : Opcodes[i][2] = value}

Max(S) == CHOOSE x \in S : \A y \in S : y <= x

\* mutant: the first entry of a value wins
OpcodeNames_firstWins ==
  [value \in {Opcodes[i][2] : i \in 1..Len(Opcodes)} |->
     Opcodes[Min(entriesOf(value))][1]]

\* Object.fromEntries(Object.entries(Opcodes).map(([name, value]) =>
\* [value, name])): of two entries with the same value the later one stays
OpcodeNames ==
  [value \in {Opcodes[i][2] : i \in 1..Len(Opcodes)} |->
     Opcodes[Max(entriesOf(value))][1]]

HexDigits ==
  <<"0", "1", "2", "3", "4", "5", "6", "7",
    "8", "9", "a", "b", "c", "d", "e", "f">>

\* Number.prototype.toString(16) of an integer, one character per element
RECURSIVE toString16(_)
toString16(n) ==
  IF n < 0 THEN <<"-">> \o toString16(0 - n)
  ELSE IF n < 16 THEN <<HexDigits[n + 1]>>
  ELSE toString16(n \div 16) \o <<HexDigits[(n % 16) + 1]>>

\* String.prototype.padStart(2, '0')
padStart2(s) ==
  IF Len(s) < 2 THEN [i \in 1..(2 - Len(s)) |-> "0"] \o s ELSE s

getOpcodeName(opcode) ==
  IF opcode \in DOMAIN OpcodeNames
  THEN OpcodeNames[opcode]
  ELSE "UNKNOWN_0x" \o Text(padStart2(toString16(opcode)))

\* the value of a name of the table
OpcodeOf(name) ==
  Opcodes[CHOOSE i \in 1..Len(Opcodes) : Opcodes[i][1] = name][2]

\* mutant: the range runs one value past OP_PUSH_TX_STATE
isRadiantOpcode_pastEnd(opcode) ==
  \/ opcode >= \Hbd /\ opcode <= \Hee
  \/ opcode = OpcodeOf("OP_CHECKDATASIG")
  \/ opcode = OpcodeOf("OP_CHECKDATASIGVERIFY")
  \/ opcode = OpcodeOf("OP_REVERSEBYTES")

isRadiantOpcode(opcode) ==
  \/ opcode >= \Hbd /\ opcode <= \Hed
  \/ opcode = OpcodeOf("OP_CHECKDATASIG")
  \/ opcode = OpcodeOf("OP_CHECKDATASIGVERIFY")
  \/ opcode = OpcodeOf("OP_REVERSEBYTES")

isIntrospectionOpcode(opcode) == opcode >= \Hc0 /\ opcode <= \Hcd

isReferenceOpcode(opcode) == opcode >= \Hd0 /\ opcode <= \Hed

isStateSeparatorOpcode(opcode) == opcode >= \Hbd /\ opcode <= \Hbf

-----------------------------------------------------------------------------
(* joinLabels                                                              *)

\* mutant: joined without the separator
RECURSIVE joinLabels_noSeparator(_)
joinLabels_noSeparator(labels) ==
  IF Len(labels) = 0 THEN <<>>
  ELSE labels[1] \o joinLabels_noSeparator(Tail(labels))

\* Array.prototype.join('.')
RECURSIVE joinLabels(_)
joinLabels(labels) ==
  IF Len(labels) = 0 THEN <<>>
  ELSE IF Len(labels) = 1 THEN labels[1]
  ELSE LET half == Len(labels) \div 2
       IN  joinLabels(SubSeq(labels, 1, half))
             \o <<".">>
             \o joinLabels(SubSeq(labels, half + 1, Len(labels)))

-----------------------------------------------------------------------------
(* Network parameters.  The names the functions compare are sequences of   *)
(* characters; a value handed to a predicate is String(s) or a parameter   *)
(* object.                                                                 *)

mainnet ==
  [name |-> <<"m", "a", "i", "n", "n", "e", "t">>,
   alias |-> <<"l", "i", "v", "e", "n", "e", "t">>,
   pubKeyHash |-> \H00, scriptHash |-> \H05, privateKey |-> \H80,
   xpubkey |-> \H0488b21e, xprivkey |-> \H0488ade4,
   networkMagic |-> <<\Hf9, \Hbe, \Hb4, \Hd9>>,
   port |-> 7333,
   dnsSeeds |-> <<"seed.radiantblockchain.org", "seed.radiant.ovh">>]

testnet ==
  [name |-> <<"t", "e", "s", "t", "n", "e", "t">>,
   alias |-> <<"t", "e", "s", "t", "n", "e", "t">>,
   pubKeyHash |-> \H6f, scriptHash |-> \Hc4, privateKey |-> \Hef,
   xpubkey |-> \H043587cf, xprivkey |-> \H04358394,
   networkMagic |-> <<\H0b, \H11, \H09, \H07>>,
   port |-> 17333,
   dnsSeeds |-> <<"testnet-seed.radiantblockchain.org">>]

regtest ==
  [name |-> <<"r", "e", "g", "t", "e", "s", "t">>,
   alias |-> <<"r", "e", "g", "t", "e", "s", "t">>,
   pubKeyHash |-> \H6f, scriptHash |-> \Hc4, privateKey |-> \Hef,
   xpubkey |-> \H043587cf, xprivkey |-> \H04358394,
   networkMagic |-> <<\Hfa, \Hbf, \Hb5, \Hda>>,
   port |-> 18444,
   dnsSeeds |-> <<>>]

\* the own properties of Networks, as <<key, value>> pairs
Networks ==
  << <<mainnet.name, mainnet>>, <<testnet.name, testnet>>,
     <<regtest.name, regtest>>, <<mainnet.alias, mainnet>> >>

\* what an object literal inherits under an all-lower-case key: the function
\* Object, whose name is "Object", and Object.prototype, which has no name
ObjectPrototype ==
  << << <<"c", "o", "n", "s", "t", "r", "u", "c", "t", "o", "r">>,
        [name |-> <<"O", "b", "j", "e", "c", "t">>] >>,
     << <<"_", "_", "p", "r", "o", "t", "o", "_", "_">>, EmptyObject >> >>

undefined == [type |-> "undefined"]

\* table[key], own properties first
propertyOf(table, key) ==
  LET own == {k \in 1..Len(table) : table[k][1] = key}
      inherited == {k \in 1..Len(ObjectPrototype) : ObjectPrototype[k][1] = key}
  IN  IF own # {} THEN table[Min(own)][2]
      ELSE IF inherited # {} THEN ObjectPrototype[Min(inherited)][2]
      ELSE undefined

getNetwork(name) ==
  LET normalizedName == toLowerCase(name)
  IN  propertyOf(Networks, normalizedName)

\* typeof network === 'string'
isString(network) ==
  DOMAIN network = {"type", "value"} /\ network.type = "string"

\* network.name === name, an absent property being undefined
nameIs(network, name) == "name" \in DOMAIN network /\ network.name = name

isMainnet(network) ==
  IF isString(network)
  THEN network.value = mainnet.name \/ network.value = mainnet.alias
  ELSE nameIs(network, mainnet.name)

isTestnet(network) ==
  IF isString(network)
  THEN network.value = testnet.name
  ELSE nameIs(network, testnet.name)

isRegtest(network) ==
  IF isString(network)
  THEN network.value = regtest.name
  ELSE nameIs(network, regtest.name)

-----------------------------------------------------------------------------
(* The calls a client can make.  The initial state holds the function and  *)
(* the argument the client chose, a Call step runs the function to its     *)
(* return (or throw).  Under the specifications of one component a         *)
(* behaviour is one call; under SpecCalls and SpecClient the client goes   *)
(* on calling.                                                             *)

\* ids a caller may pass: the enumeration and one integer on each side of it
ProtocolInputs == SeqsUpTo(0..12, MaxProtocols)

\* lists one longer than GlyphLimits.MAX_PROTOCOLS: a short list with its
\* last id repeated
LongProtocols ==
  {s \o [i \in 1..(GlyphLimits.MAX_PROTOCOLS + 1 - Len(s)) |-> s[Len(s)]] :
     s \in SeqsUpTo(0..12, MaxLongProtocols) \ {<<>>}}

InitProtocols ==
  /\ pc = "call"
  /\ fn = "validateProtocols"
  /\ arg \in ProtocolInputs \cup LongProtocols
  /\ ret = "pending"
  /\ heap = Tables
  /\ made = <<>>

CallValidateProtocols ==
  /\ pc = "call"
  /\ fn = "validateProtocols"
  /\ ret' = validateProtocols(arg)
  /\ pc' = "done"
  /\ UNCHANGED <<fn, arg, heap, made>>

NextProtocols == CallValidateProtocols

SpecProtocols == InitProtocols /\ [][NextProtocols]_vars

\* characters names are built from: letters (two of them spell the Punycode
\* prefix), an upper-case letter, the hyphen and a character outside the
\* alphabet
NameChars == {"a", "x", "n", "X", "-", "!"}

\* n copies of the filler letter
Filler(n) == [i \in 1..n |-> "a"]

\* names at most one character off the length limit, with every short head
\* (and the Punycode prefix) and every short tail
LongNames ==
  {head \o Filler(len - Len(head) - Len(tail)) \o tail :
     head \in SeqsUpTo(NameChars, MaxNameEdge) \cup {<<"x", "n", "-", "-">>},
     tail \in SeqsUpTo(NameChars, MaxNameEdge),
     len \in (WaveLimits.MAX_NAME_LENGTH - 1)..(WaveLimits.MAX_NAME_LENGTH + 1)}

NameInputs == SeqsUpTo(NameChars, MaxNameLen) \cup LongNames

InitName ==
  /\ pc = "call"
  /\ fn \in {"validateWaveName", "isPunycode"}
  /\ arg \in NameInputs
  /\ ret = "pending"
  /\ heap = Tables
  /\ made = <<>>

CallValidateWaveName ==
  /\ pc = "call"
  /\ fn = "validateWaveName"
  /\ ret' = validateWaveName(arg)
  /\ pc' = "done"
  /\ UNCHANGED <<fn, arg, heap, made>>

CallIsPunycode ==
  /\ pc = "call"
  /\ fn = "isPunycode"
  /\ ret' = isPunycode(arg)
  /\ pc' = "done"
  /\ UNCHANGED <<fn, arg, heap, made>>

NextName == CallValidateWaveName \/ CallIsPunycode

SpecName == InitName /\ [][NextName]_vars

\* characters domains are built from: a letter, the hyphen, the separator
\* and a character outside the alphabet
DomainChars == {"a", "-", ".", "!"}

\* n one-letter labels, each followed by the separator
Labels(n) == [i \in 1..(2 * n) |-> IF i % 2 = 1 THEN "a" ELSE "."]

\* domains with about as many labels as the depth limit of WaveLimits or
\* the one of GlyphDefaults, with every short head and every short tail
LongDomains ==
  {head \o Labels(n) \o tail :
     head \in SeqsUpTo(DomainChars, MaxDomainEdge),
     tail \in SeqsUpTo(DomainChars, MaxDomainEdge),
     n \in ((WaveLimits.MAX_SUBDOMAIN_DEPTH - 2)
              ..(WaveLimits.MAX_SUBDOMAIN_DEPTH + 1))
           \cup (GlyphDefaults.MAX_SUBDOMAIN_DEPTH
                   ..(GlyphDefaults.MAX_SUBDOMAIN_DEPTH + 1))}

DomainInputs == SeqsUpTo(DomainChars, MaxDomainLen) \cup LongDomains

InitDomain ==
  /\ pc = "call"
  /\ fn \in {"validateDomain", "parseLabels"}
  /\ arg \in DomainInputs
  /\ ret = "pending"
  /\ heap = Tables
  /\ made = <<>>

CallValidateDomain ==
  /\ pc = "call"
  /\ fn = "validateDomain"
  /\ ret' = validateDomain(arg)
  /\ pc' = "done"
  /\ UNCHANGED <<fn, arg, heap, made>>

CallParseLabels ==
  /\ pc = "call"
  /\ fn = "parseLabels"
  /\ ret' = parseLabels(arg)
  /\ pc' = "done"
  /\ UNCHANGED <<fn, arg, heap, made>>

NextDomain == CallValidateDomain \/ CallParseLabels

SpecDomain == InitDomain /\ [][NextDomain]_vars

\* single characters handed to the codec: the alphabet, the upper-case
\* letters and some characters outside the alphabet
CodecChars == Ids(WAVE_CHARS) \cup Ids(UPPER) \cup {"!", " ", "_", "."}

CharInputs ==
  {<<c>> : c \in CodecChars} \cup SeqsUpTo(NameChars, MaxCharArgLen)

IndexInputs == (0 - IndexMargin)..(WaveLimits.CHAR_COUNT + IndexMargin)

InitCodec ==
  /\ pc = "call"
  /\ \/ fn \in {"charToIndex", "charToOutputIndex"} /\ arg \in CharInputs
     \/ fn \in {"indexToChar", "outputIndexToChar"} /\ arg \in IndexInputs
  /\ ret = "pending"
  /\ heap = Tables
  /\ made = <<>>

CallCharToIndex ==
  /\ pc = "call"
  /\ fn = "charToIndex"
  /\ ret' = charToIndex(arg)
  /\ pc' = "done"
  /\ UNCHANGED <<fn, arg, heap, made>>

CallIndexToChar ==
  /\ pc = "call"
  /\ fn = "indexToChar"
  /\ ret' = indexToChar(arg)
  /\ pc' = "done"
  /\ UNCHANGED <<fn, arg, heap, made>>

CallCharToOutputIndex ==
  /\ pc = "call"
  /\ fn = "charToOutputIndex"
  /\ ret' = charToOutputIndex(arg)
  /\ pc' = "done"
  /\ UNCHANGED <<fn, arg, heap, made>>

CallOutputIndexToChar ==
  /\ pc = "call"
  /\ fn = "outputIndexToChar"
  /\ ret' = outputIndexToChar(arg)
  /\ pc' = "done"
  /\ UNCHANGED <<fn, arg, heap, made>>

NextCodec ==
  \/ CallCharToIndex
  \/ CallIndexToChar
  \/ CallCharToOutputIndex
  \/ CallOutputIndexToChar

SpecCodec == InitCodec /\ [][NextCodec]_vars

InitPath ==
  /\ pc = "call"
  /\ fn = "getCharacterPath"
  /\ arg \in NameInputs
  /\ ret = "pending"
  /\ heap = Tables
  /\ made = <<>>

CallGetCharacterPath ==
  /\ pc = "call"
  /\ fn = "getCharacterPath"
  /\ ret' = getCharacterPath(arg)
  /\ pc' = "done"
  /\ UNCHANGED <<fn, arg, heap, made>>

NextPath == CallGetCharacterPath

SpecPath == InitPath /\ [][NextPath]_vars

\* the maps a caller passes as zone or as updates
ZoneMaps == {{}, {<<"address", "1abc">>}}

\* the reference of the map the caller made before its first call
CallerMap == "callerMap"

ParentRefs == {null, String("parent-ref")}

\* options objects: each property absent, or present with a value of its
\* type, the empty string included
OptionsInputs ==
  {mutable @@ controllerRef @@ description :
     mutable \in {EmptyObject} \cup {[mutable |-> b] : b \in BOOLEAN},
     controllerRef \in {EmptyObject}
        \cup {[controllerRef |-> s] : s \in {"", "controller-ref"}},
     description \in {EmptyObject}
        \cup {[description |-> s] : s \in {"", "My name"}}}

\* argument lists of createWaveMetadata: zone and options may be left out;
\* the short names go with every combination of the other arguments, the
\* names near the length limit with the defaults
MetadataArgs ==
  {[name |-> name, parentRef |-> parentRef] @@ zone @@ options :
     name \in SeqsUpTo(NameChars, MaxBuilderNameLen),
     parentRef \in ParentRefs,
     zone \in {EmptyObject, [zone |-> CallerMap]},
     options \in {EmptyObject} \cup {[options |-> o] : o \in OptionsInputs}}
  \cup {[name |-> name, parentRef |-> null] : name \in LongNames}

ZoneUpdateArgs ==
  [targetRef : {"", "target-ref"},
   updates : {CallerMap},
   controllerRef : {"", "controller-ref"}]

InitBuilder ==
  /\ pc = "call"
  /\ \/ fn = "createWaveMetadata" /\ arg \in MetadataArgs
     \/ fn = "createZoneUpdate" /\ arg \in ZoneUpdateArgs
  /\ ret = "pending"
  /\ \E map \in ZoneMaps : heap = (CallerMap :> map) @@ Tables
  /\ made = <<>>

\* zone: WaveZoneRecords = {} and options = {} stand in for an argument left
\* out; a call that throws leaves nothing behind
CallCreateWaveMetadata ==
  /\ pc = "call"
  /\ fn = "createWaveMetadata"
  /\ LET omitted == "zone" \notin DOMAIN arg
         h == IF omitted THEN (NewRef(heap) :> {}) @@ heap ELSE heap
         zone == IF omitted THEN NewRef(heap) ELSE arg.zone
         options == IF "options" \in DOMAIN arg
                    THEN arg.options ELSE EmptyObject
         call == createWaveMetadata(h, arg.name, arg.parentRef, zone, options)
     IN  /\ ret' = call.result
         /\ heap' = IF call.result.threw THEN heap ELSE call.heap
         /\ made' = IF call.result.threw
                    THEN made ELSE Append(made, call.result.value)
  /\ pc' = "done"
  /\ UNCHANGED <<fn, arg>>

CallCreateZoneUpdate ==
  /\ pc = "call"
  /\ fn = "createZoneUpdate"
  /\ ret' = createZoneUpdate(arg.targetRef, arg.updates, arg.controllerRef)
  /\ made' = IF ret'.threw THEN made ELSE Append(made, ret'.value)
  /\ pc' = "done"
  /\ UNCHANGED <<fn, arg, heap>>

NextBuilder == CallCreateWaveMetadata \/ CallCreateZoneUpdate

SpecBuilder == InitBuilder /\ [][NextBuilder]_vars

\* A client that goes on: after a return it calls again, and between calls
\* it changes the objects it holds, the map it passed in and the p array of
\* a record it got back.

ClientMetadataArgs ==
  {[name |-> name, parentRef |-> null] @@ zone @@ options :
     name \in {<<"a">>, <<"-">>},
     zone \in {EmptyObject, [zone |-> CallerMap]},
     options \in {EmptyObject, [options |-> [mutable |-> FALSE]]}}

ClientUpdateArgs ==
  [targetRef : {"target-ref"},
   updates : {CallerMap},
   controllerRef : {"controller-ref"}]

InitClient ==
  /\ pc = "call"
  /\ fn = "createWaveMetadata"
  /\ arg \in ClientMetadataArgs
  /\ ret = "pending"
  /\ \E map \in ZoneMaps : heap = (CallerMap :> map) @@ Tables
  /\ made = <<>>

\* the next call, of any function of the package; the builders are called
\* until the client holds MaxRecords records
ClientCalls ==
  /\ pc = "done"
  /\ \/ /\ Len(made) < MaxRecords
        /\ \/ fn' = "createWaveMetadata" /\ arg' \in ClientMetadataArgs
           \/ fn' = "createZoneUpdate" /\ arg' \in ClientUpdateArgs
     \/ fn' = "validateProtocols" /\ arg' = WaveProtocols.WAVE_NAME
     \/ /\ fn' \in {"validateWaveName", "isPunycode", "getCharacterPath"}
        /\ arg' = <<"x", "n", "-", "-", "a">>
     \/ /\ fn' \in {"validateDomain", "parseLabels"}
        /\ arg' = <<"a", ".", "a">>
     \/ fn' \in {"charToIndex", "charToOutputIndex"} /\ arg' = <<"a">>
     \/ fn' \in {"indexToChar", "outputIndexToChar"} /\ arg' = 1
  /\ pc' = "call"
  /\ ret' = "pending"
  /\ UNCHANGED <<heap, made>>

\* zone.address = '1abc' or delete zone.address, on the map the client
\* passed as zone or as updates
ClientChangesMap ==
  /\ pc = "done"
  /\ \E map \in ZoneMaps \ {heap[CallerMap]} :
       heap' = [heap EXCEPT ![CallerMap] = map]
  /\ UNCHANGED <<pc, fn, arg, ret, made>>

\* record.p.length = 0, on a record the client got back
ClientChangesList ==
  /\ pc = "done"
  /\ \E i \in 1..Len(made) :
       /\ "p" \in DOMAIN made[i]
       /\ heap[made[i].p] # <<>>
       /\ heap' = [heap EXCEPT ![made[i].p] = <<>>]
  /\ UNCHANGED <<pc, fn, arg, ret, made>>

\* the three validators together
InitValidators ==
  /\ InitProtocols \/ InitName \/ InitDomain
  /\ fn \in {"validateProtocols", "validateWaveName", "validateDomain"}

NextValidators ==
  \/ CallValidateProtocols
  \/ CallValidateWaveName
  \/ CallValidateDomain

SpecValidators == InitValidators /\ [][NextValidators]_vars

FlagValues == {ScriptFlags[name] : name \in DOMAIN ScriptFlags}

\* flags values: up to MaxFlagsCombined flags of the table or'ed together,
\* the complements of these (bit 31 set, so negative), and the standard set
FlagsInputs ==
  LET combined == {FromBits(UNION {Bits(v) : v \in S}) :
                     S \in {T \in SUBSET FlagValues :
                              Cardinality(T) <= MaxFlagsCombined}}
  IN  combined \cup {BitNot(v) : v \in combined}
        \cup {STANDARD_SCRIPT_VERIFY_FLAGS}

InitFlags ==
  /\ pc = "call"
  /\ fn \in {"hasFlag", "setFlag", "clearFlag"}
  /\ arg \in [flags : FlagsInputs, flag : FlagValues]
  /\ ret = "pending"
  /\ heap = Tables
  /\ made = <<>>

CallHasFlag ==
  /\ pc = "call"
  /\ fn = "hasFlag"
  /\ ret' = hasFlag(arg.flags, arg.flag)
  /\ pc' = "done"
  /\ UNCHANGED <<fn, arg, heap, made>>

CallSetFlag ==
  /\ pc = "call"
  /\ fn = "setFlag"
  /\ ret' = setFlag(arg.flags, arg.flag)
  /\ pc' = "done"
  /\ UNCHANGED <<fn, arg, heap, made>>

CallClearFlag ==
  /\ pc = "call"
  /\ fn = "clearFlag"
  /\ ret' = clearFlag(arg.flags, arg.flag)
  /\ pc' = "done"
  /\ UNCHANGED <<fn, arg, heap, made>>

NextFlags == CallHasFlag \/ CallSetFlag \/ CallClearFlag

SpecFlags == InitFlags /\ [][NextFlags]_vars

\* opcode arguments: the byte values and some integers on each side of them
OpcodeInputs == (0 - OpcodeMargin)..(255 + OpcodeMargin)

InitOpcodes ==
  /\ pc = "call"
  /\ fn \in {"getOpcodeName", "isRadiantOpcode", "isIntrospectionOpcode",
             "isReferenceOpcode", "isStateSeparatorOpcode"}
  /\ arg \in OpcodeInputs
  /\ ret = "pending"
  /\ heap = Tables
  /\ made = <<>>

CallGetOpcodeName ==
  /\ pc = "call"
  /\ fn = "getOpcodeName"
  /\ ret' = getOpcodeName(arg)
  /\ pc' = "done"
  /\ UNCHANGED <<fn, arg, heap, made>>

CallIsRadiantOpcode ==
  /\ pc = "call"
  /\ fn = "isRadiantOpcode"
  /\ ret' = isRadiantOpcode(arg)
  /\ pc' = "done"
  /\ UNCHANGED <<fn, arg, heap, made>>

CallIsIntrospectionOpcode ==
  /\ pc = "call"
  /\ fn = "isIntrospectionOpcode"
  /\ ret' = isIntrospectionOpcode(arg)
  /\ pc' = "done"
  /\ UNCHANGED <<fn, arg, heap, made>>

CallIsReferenceOpcode ==
  /\ pc = "call"
  /\ fn = "isReferenceOpcode"
  /\ ret' = isReferenceOpcode(arg)
  /\ pc' = "done"
  /\ UNCHANGED <<fn, arg, heap, made>>

CallIsStateSeparatorOpcode ==
  /\ pc = "call"
  /\ fn = "isStateSeparatorOpcode"
  /\ ret' = isStateSeparatorOpcode(arg)
  /\ pc' = "done"
  /\ UNCHANGED <<fn, arg, heap, made>>

NextOpcodes ==
  \/ CallGetOpcodeName
  \/ CallIsRadiantOpcode
  \/ CallIsIntrospectionOpcode
  \/ CallIsReferenceOpcode
  \/ CallIsStateSeparatorOpcode

SpecOpcodes == InitOpcodes /\ [][NextOpcodes]_vars

\* label lists handed to joinLabels: labels of up to two characters, the
\* empty label and labels with the separator among them
LabelLists == SeqsUpTo(SeqsUpTo({"a", "-", "."}, 2), MaxLabels)

InitLabels ==
  /\ pc = "call"
  /\ \/ fn = "parseLabels" /\ arg \in SeqsUpTo(DomainChars, MaxDomainLen)
     \/ fn = "joinLabels" /\ arg \in LabelLists
  /\ ret = "pending"
  /\ heap = Tables
  /\ made = <<>>

CallJoinLabels ==
  /\ pc = "call"
  /\ fn = "joinLabels"
  /\ ret' = joinLabels(arg)
  /\ pc' = "done"
  /\ UNCHANGED <<fn, arg, heap, made>>

NextLabels == CallParseLabels \/ CallJoinLabels

SpecLabels == InitLabels /\ [][NextLabels]_vars

\* s with its first k letters in upper case
UpperCased(s, k) ==
  [i \in 1..Len(s) |->
     IF i <= k /\ \E j \in 1..Len(LOWER) : LOWER[j] = s[i]
     THEN UPPER[CHOOSE j \in 1..Len(LOWER) : LOWER[j] = s[i]]
     ELSE s[i]]

\* names a caller may pass: the keys of Networks, two inherited keys, a name
\* of no network and the empty string, each also with its first letters or
\* all of its letters in upper case
NetworkNameInputs ==
  {UpperCased(s, k) :
     s \in {Networks[n][1] : n \in 1..Len(Networks)}
           \cup {ObjectPrototype[n][1] : n \in 1..Len(ObjectPrototype)}
           \cup {<<"b", "i", "t", "c", "o", "i", "n">>, <<>>},
     k \in 0..MaxUpperCased \cup {11}}

NetworkObjects == {mainnet, testnet, regtest}

InitNetworks ==
  /\ pc = "call"
  /\ \/ fn = "getNetwork" /\ arg \in NetworkNameInputs
     \/ /\ fn \in {"isMainnet", "isTestnet", "isRegtest"}
        /\ arg \in {String(s) : s \in NetworkNameInputs} \cup NetworkObjects
  /\ ret = "pending"
  /\ heap = Tables
  /\ made = <<>>

CallGetNetwork ==
  /\ pc = "call"
  /\ fn = "getNetwork"
  /\ ret' = getNetwork(arg)
  /\ pc' = "done"
  /\ UNCHANGED <<fn, arg, heap, made>>

CallIsMainnet ==
  /\ pc = "call"
  /\ fn = "isMainnet"
  /\ ret' = isMainnet(arg)
  /\ pc' = "done"
  /\ UNCHANGED <<fn, arg, heap, made>>

CallIsTestnet ==
  /\ pc = "call"
  /\ fn = "isTestnet"
  /\ ret' = isTestnet(arg)
  /\ pc' = "done"
  /\ UNCHANGED <<fn, arg, heap, made>>

CallIsRegtest ==
  /\ pc = "call"
  /\ fn = "isRegtest"
  /\ ret' = isRegtest(arg)
  /\ pc' = "done"
  /\ UNCHANGED <<fn, arg, heap, made>>

NextNetworks == CallGetNetwork \/ CallIsMainnet \/ CallIsTestnet \/ CallIsRegtest

SpecNetworks == InitNetworks /\ [][NextNetworks]_vars

Init ==
  \/ InitProtocols
  \/ InitName
  \/ InitDomain
  \/ InitCodec
  \/ InitPath
  \/ InitBuilder
  \/ InitClient
  \/ InitLabels
  \/ InitFlags
  \/ InitOpcodes
  \/ InitNetworks

\* a call runs to its return
NextCall ==
  \/ CallValidateProtocols
  \/ CallValidateWaveName
  \/ CallIsPunycode
  \/ CallValidateDomain
  \/ CallParseLabels
  \/ CallCharToIndex
  \/ CallIndexToChar
  \/ CallCharToOutputIndex
  \/ CallOutputIndexToChar
  \/ CallGetCharacterPath
  \/ CallCreateWaveMetadata
  \/ CallCreateZoneUpdate

\* calls of the package, and a client that changes only the map it passed in
NextCalls == NextCall \/ ClientCalls \/ ClientChangesMap

SpecCalls == InitClient /\ [][NextCalls]_vars

\* and a client that changes a list it was handed as well
NextClient == NextCalls \/ ClientChangesList

SpecClient == InitClient /\ [][NextClient]_vars

\* every call of the package
Next ==
  \/ NextClient
  \/ CallJoinLabels
  \/ NextFlags
  \/ NextOpcodes
  \/ NextNetworks

Spec == Init /\ [][Next]_vars

-----------------------------------------------------------------------------
(* Claims about validateProtocols (checked under SpecProtocols)            *)

ProtocolsDone == pc = "done" /\ fn = "validateProtocols"

\* the four rules, each stated on the set of ids (and the length) alone
BreaksExclusion(s) == GLYPH_FT \in Ids(s) /\ GLYPH_NFT \in Ids(s)

BreaksRequirement(s) ==
  \E p \in Ids(s) \cap DOMAIN PROTOCOL_REQUIREMENTS :
    \E r \in Ids(PROTOCOL_REQUIREMENTS[p]) : r \notin Ids(s)

BreaksAlone(s) == Len(s) = 1 /\ s[1] \in Ids(PROTOCOLS_REQUIRE_BASE)

BreaksBurn(s) ==
  GLYPH_BURN \in Ids(s) /\ GLYPH_FT \notin Ids(s) /\ GLYPH_NFT \notin Ids(s)

\* which rule an error message belongs to
IsExclusionError(e) ==
  e = "Protocols GLYPH_FT and GLYPH_NFT are mutually exclusive"

IsRequiresError(e) ==
  \E p \in DOMAIN PROTOCOL_REQUIREMENTS :
    \E r \in Ids(PROTOCOL_REQUIREMENTS[p]) :
      e = "Protocol " \o getProtocolName(p) \o " requires " \o getProtocolName(r)

IsAloneError(e) ==
  \E p \in Ids(PROTOCOLS_REQUIRE_BASE) :
    e = "Protocol " \o getProtocolName(p) \o " cannot exist alone"

IsBurnError(e) == e = "BURN must accompany FT or NFT"

\* 0 for a valid result, else the number of the rule the error belongs to
FailedRule(r) ==
  IF r.valid THEN 0
  ELSE IF IsExclusionError(r.error) THEN 1
  ELSE IF IsRequiresError(r.error) THEN 2
  ELSE IF IsAloneError(r.error) THEN 3
  ELSE IF IsBurnError(r.error) THEN 4
  ELSE 5

\* C1: validateProtocols(s).valid is true exactly when s breaks none of the
\* four rules (exclusion, requirement, cannot-exist-alone, BURN needs FT or
\* NFT); in particular the empty array is valid.
C1_ValidIffNoRuleBroken ==
  ProtocolsDone =>
    /\ ret.valid <=> /\ ~BreaksExclusion(arg)
                     /\ ~BreaksRequirement(arg)
                     /\ ~BreaksAlone(arg)
                     /\ ~BreaksBurn(arg)
    /\ arg = <<>> => ret.valid

\* a three-id combination with a transitive requirement was accepted
C1_Witness ==
  /\ ProtocolsDone
  /\ arg = <<GLYPH_NFT, GLYPH_ENCRYPTED, GLYPH_TIMELOCK>>
  /\ ret.valid

\* C2: the error returned is that of the earliest broken rule in the order
\* exclusion, requirement, cannot-exist-alone, BURN needs FT or NFT.
C2_FirstFailingRuleWins ==
  ProtocolsDone =>
    /\ BreaksExclusion(arg) => FailedRule(ret) = 1
    /\ ~BreaksExclusion(arg) /\ BreaksRequirement(arg) => FailedRule(ret) = 2
    /\ ~BreaksExclusion(arg) /\ ~BreaksRequirement(arg) /\ BreaksAlone(arg)
         => FailedRule(ret) = 3
    /\ ~BreaksExclusion(arg) /\ ~BreaksRequirement(arg) /\ ~BreaksAlone(arg)
         /\ BreaksBurn(arg) => FailedRule(ret) = 4

\* [DMINT] breaks the requirement rule and the alone rule and got "requires"
C2_Witness ==
  /\ ProtocolsDone
  /\ arg = <<GLYPH_DMINT>>
  /\ BreaksRequirement(arg) /\ BreaksAlone(arg)
  /\ ret = [valid |-> FALSE, error |-> "Protocol GLYPH_DMINT requires GLYPH_FT"]

\* C3: every input that contains BURN and neither FT nor NFT is invalid.
C3_BurnNeedsBase ==
  ProtocolsDone /\ BreaksBurn(arg) => ~ret.valid

\* BURN with a data protocol only, which no other rule rejects
C3_Witness ==
  /\ ProtocolsDone
  /\ arg = <<GLYPH_BURN, GLYPH_DAT>>
  /\ ~BreaksExclusion(arg) /\ ~BreaksRequirement(arg) /\ ~BreaksAlone(arg)
  /\ ~ret.valid

\* s with every later occurrence of an id removed
RECURSIVE Dedup(_)
Dedup(s) ==
  IF s = <<>> THEN <<>>
  ELSE LET front == Dedup(SubSeq(s, 1, Len(s) - 1))
       IN  IF includes(front, s[Len(s)]) THEN front
           ELSE Append(front, s[Len(s)])

HasDuplicates(s) == Len(Dedup(s)) < Len(s)

\* C4 as stated: on an input with duplicates the valid flag and the failing
\* rule are those of the input with the duplicates removed.
C4_Original_SameRuleAsSet ==
  ProtocolsDone /\ HasDuplicates(arg) =>
    /\ ret.valid = validateProtocols(Dedup(arg)).valid
    /\ FailedRule(ret) = FailedRule(validateProtocols(Dedup(arg)))

\* C4 (amended): on an input with duplicates the valid flag is that of the
\* input with the duplicates removed, and so is the failing rule unless
\* the input consists of copies of BURN only: that input fails the BURN rule
\* where [BURN] fails the cannot-exist-alone rule.
C4_SameValidAsSet ==
  ProtocolsDone /\ HasDuplicates(arg) =>
    /\ ret.valid = validateProtocols(Dedup(arg)).valid
    /\ Ids(arg) # {GLYPH_BURN} =>
         FailedRule(ret) = FailedRule(validateProtocols(Dedup(arg)))
    /\ Ids(arg) = {GLYPH_BURN} =>
         /\ FailedRule(ret) = 4
         /\ FailedRule(validateProtocols(Dedup(arg))) = 3

\* a repeated id whose single copy would be rejected as alone
C4_Witness ==
  /\ ProtocolsDone
  /\ arg = <<GLYPH_BURN, GLYPH_BURN>>
  /\ ret = [valid |-> FALSE, error |-> "BURN must accompany FT or NFT"]

-----------------------------------------------------------------------------
(* Claims about validateWaveName (checked under SpecName)                  *)

NameDone == pc = "done" /\ fn = "validateWaveName"

\* the rules of a name, each stated on the characters of the name itself
NameEmpty(name) == Len(name) = 0

NameTooLong(name) == Len(name) > 63

NameStartsWithHyphen(name) == Len(name) >= 1 /\ name[1] = "-"

NameEndsWithHyphen(name) == Len(name) >= 1 /\ name[Len(name)] = "-"

HasDoubleHyphen(name) ==
  \E i \in 1..(Len(name) - 1) : name[i] = "-" /\ name[i + 1] = "-"

BeginsWithLiteralXn(name) ==
  /\ Len(name) >= 4
  /\ name[1] = "x" /\ name[2] = "n" /\ name[3] = "-" /\ name[4] = "-"

NameDoubleHyphen(name) == HasDoubleHyphen(name) /\ ~BeginsWithLiteralXn(name)

NameBadCharacter(name) ==
  \E i \in 1..Len(name) : toLowerCaseChar(name[i]) \notin Ids(WAVE_CHARS)

\* 0 for a valid result, else the number of the rule the error belongs to
NameFailedRule(r) ==
  IF r.valid THEN 0
  ELSE IF r.error = "Name cannot be empty" THEN 1
  ELSE IF r.error = "Name exceeds maximum length of 63" THEN 2
  ELSE IF r.error = "Name cannot start with hyphen" THEN 3
  ELSE IF r.error = "Name cannot end with hyphen" THEN 4
  ELSE IF r.error
            = "Name cannot contain consecutive hyphens (except Punycode prefix)"
  THEN 5
  ELSE IF \E c \in NameChars :
            r.error = "Invalid character: \"" \o toLowerCaseChar(c) \o "\""
  THEN 6
  ELSE 7

\* C5: validateWaveName(name) is valid exactly when name has 1..63
\* characters, each lowercasing into the alphabet, no hyphen at either end,
\* and no "--" unless name begins with the literal "xn--"; a name that begins
\* with "xn--" is still rejected for length, a boundary hyphen or a character
\* outside the alphabet.
C5_ValidIffWellFormed ==
  NameDone =>
    /\ ret.valid <=> /\ Len(arg) \in 1..63
                     /\ ~NameBadCharacter(arg)
                     /\ ~NameStartsWithHyphen(arg)
                     /\ ~NameEndsWithHyphen(arg)
                     /\ ~HasDoubleHyphen(arg) \/ BeginsWithLiteralXn(arg)
    /\ BeginsWithLiteralXn(arg)
         /\ (NameTooLong(arg) \/ NameEndsWithHyphen(arg) \/ NameBadCharacter(arg))
         => ~ret.valid

\* a Punycode name of exactly the maximum length was accepted
C5_Witness ==
  /\ NameDone
  /\ BeginsWithLiteralXn(arg)
  /\ Len(arg) = 63
  /\ ret.valid

\* C6: for every name with isPunycode(name) true, validateWaveName(name)
\* never fails with the consecutive-hyphens error.
C6_PunycodeExemptInEitherCase ==
  NameDone /\ isPunycode(arg) => NameFailedRule(ret) # 5

\* C7: validateWaveName returns the error of the earliest broken rule in the
\* order empty, too long, starts with hyphen, ends with hyphen, consecutive
\* hyphens, invalid character.
C7_FirstFailingNameRule ==
  NameDone =>
    /\ NameEmpty(arg) => NameFailedRule(ret) = 1
    /\ ~NameEmpty(arg) /\ NameTooLong(arg) => NameFailedRule(ret) = 2
    /\ ~NameEmpty(arg) /\ ~NameTooLong(arg) /\ NameStartsWithHyphen(arg)
         => NameFailedRule(ret) = 3
    /\ ~NameEmpty(arg) /\ ~NameTooLong(arg) /\ ~NameStartsWithHyphen(arg)
         /\ NameEndsWithHyphen(arg) => NameFailedRule(ret) = 4
    /\ ~NameEmpty(arg) /\ ~NameTooLong(arg) /\ ~NameStartsWithHyphen(arg)
         /\ ~NameEndsWithHyphen(arg) /\ NameDoubleHyphen(arg)
         => NameFailedRule(ret) = 5
    /\ ~NameEmpty(arg) /\ ~NameTooLong(arg) /\ ~NameStartsWithHyphen(arg)
         /\ ~NameEndsWithHyphen(arg) /\ ~NameDoubleHyphen(arg)
         /\ NameBadCharacter(arg) => NameFailedRule(ret) = 6

\* a 64-character name with a hyphen at both ends got the length error
C7_Witness ==
  /\ NameDone
  /\ Len(arg) = 64
  /\ NameStartsWithHyphen(arg) /\ NameEndsWithHyphen(arg)
  /\ ret = [valid |-> FALSE, error |-> "Name exceeds maximum length of 63"]

-----------------------------------------------------------------------------
(* Claims about validateDomain (checked under SpecDomain)                  *)

DomainDone == pc = "done" /\ fn = "validateDomain"

\* where the non-empty segments of a domain start
LabelStarts(d) ==
  {i \in 1..Len(d) : d[i] # "." /\ (i = 1 \/ d[i - 1] = ".")}

\* the last index of the non-empty segment that holds index i
RECURSIVE LabelEnd(_, _)
LabelEnd(d, i) ==
  IF i = Len(d) \/ d[i + 1] = "." THEN i ELSE LabelEnd(d, i + 1)

LabelAt(d, i) == SubSeq(d, i, LabelEnd(d, i))

InvalidLabelStarts(d) ==
  {i \in LabelStarts(d) : ~validateWaveName(LabelAt(d, i)).valid}

\* the error that names the leftmost invalid label of d
FirstInvalidLabelError(d) ==
  LET label == LabelAt(d, Min(InvalidLabelStarts(d)))
  IN  "Invalid label \"" \o Text(label) \o "\": "
        \o validateWaveName(label).error

DomainValidIffLabelsValid ==
  ret.valid <=> /\ Cardinality(LabelStarts(arg)) \in 1..127
                /\ InvalidLabelStarts(arg) = {}

\* C8 as stated: valid exactly when 1..127 non-empty segments, all valid
\* names; whenever some label is invalid the error names the leftmost
\* invalid label with its validateWaveName error; a domain without a
\* non-empty segment is rejected as empty.
C8_Original_InvalidLabelAlwaysNamed ==
  DomainDone =>
    /\ DomainValidIffLabelsValid
    /\ InvalidLabelStarts(arg) # {} =>
         ret = [valid |-> FALSE, error |-> FirstInvalidLabelError(arg)]
    /\ LabelStarts(arg) = {} =>
         ret = [valid |-> FALSE, error |-> "Domain cannot be empty"]

\* C8 (amended): as C8, but the leftmost invalid label is named only when
\* there are at most 127 labels; with more than 127 labels the error is the
\* depth error, whether or not a label is invalid.
C8_InvalidLabelNamedWithinDepth ==
  DomainDone =>
    /\ DomainValidIffLabelsValid
    /\ InvalidLabelStarts(arg) # {} /\ Cardinality(LabelStarts(arg)) <= 127 =>
         ret = [valid |-> FALSE, error |-> FirstInvalidLabelError(arg)]
    /\ Cardinality(LabelStarts(arg)) > 127 =>
         ret = [valid |-> FALSE,
                error |-> "Domain exceeds maximum depth of 127"]
    /\ LabelStarts(arg) = {} =>
         ret = [valid |-> FALSE, error |-> "Domain cannot be empty"]

\* two invalid labels after an empty segment: the left one was named
C8_Witness ==
  /\ DomainDone
  /\ arg = <<".", "-", "a", ".", "!">>
  /\ Cardinality(InvalidLabelStarts(arg)) = 2
  /\ ret = [valid |-> FALSE,
            error |-> "Invalid label \"-a\": Name cannot start with hyphen"]

-----------------------------------------------------------------------------
(* Claims about the character codec (checked under SpecCodec)              *)

DIGITS == <<"0", "1", "2", "3", "4", "5", "6", "7", "8", "9">>

\* one character that is in the alphabet, in either case
ValidCharArg(a) ==
  /\ Len(a) = 1
  /\ a[1] \in Ids(LOWER) \cup Ids(UPPER) \cup Ids(DIGITS) \cup {"-"}

Returned(v) == [threw |-> FALSE, value |-> v]

\* C9: charToOutputIndex(outputIndexToChar(i)) = i on 1..37,
\* charToIndex(indexToChar(i)) = i on 0..36, and for a valid character c
\* indexToChar(charToIndex(c)) = outputIndexToChar(charToOutputIndex(c))
\* = lowercase(c).
C9_CodecRoundTrips ==
  /\ pc = "done" /\ fn = "outputIndexToChar" /\ arg \in 1..37 =>
       ~ret.threw /\ charToOutputIndex(ret.value) = Returned(arg)
  /\ pc = "done" /\ fn = "indexToChar" /\ arg \in 0..36 =>
       ~ret.threw /\ charToIndex(ret.value) = Returned(arg)
  /\ pc = "done" /\ fn = "charToIndex" /\ ValidCharArg(arg) =>
       ~ret.threw /\ indexToChar(ret.value) = Returned(toLowerCase(arg))
  /\ pc = "done" /\ fn = "charToOutputIndex" /\ ValidCharArg(arg) =>
       ~ret.threw /\ outputIndexToChar(ret.value) = Returned(toLowerCase(arg))

\* an upper-case letter went to its output index, which maps back to the
\* lower-case letter
C9_Witness ==
  /\ pc = "done" /\ fn = "charToOutputIndex"
  /\ arg = <<"Z">>
  /\ ret = Returned(26)
  /\ outputIndexToChar(26) = Returned(<<"z">>)

\* C10: charToIndex maps the letters a..z (either case) to 0..25 in
\* alphabetical order, the digits 0..9 to 26..35 and the hyphen to 36; for
\* every valid character charToOutputIndex(c) = charToIndex(c) + 1, in 1..37.
C10_AlphabetOrder ==
  /\ pc = "done" /\ fn = "charToIndex" /\ Len(arg) = 1 =>
       /\ \A i \in 1..26 :
            arg[1] \in {LOWER[i], UPPER[i]} => ret = Returned(i - 1)
       /\ \A i \in 1..10 : arg[1] = DIGITS[i] => ret = Returned(25 + i)
       /\ arg[1] = "-" => ret = Returned(36)
  /\ pc = "done" /\ fn = "charToOutputIndex" /\ ValidCharArg(arg) =>
       /\ ~ret.threw
       /\ ret.value = charToIndex(arg).value + 1
       /\ ret.value \in 1..37

\* the last digit is at index 35
C10_Witness ==
  /\ pc = "done" /\ fn = "charToIndex"
  /\ arg = <<"9">>
  /\ ret = Returned(35)

\* a call that threw: no value came back
Threw(r) == r.threw /\ "value" \notin DOMAIN r

\* C11: the codec fails fast.  charToIndex throws for every string that is
\* not exactly one character and for every single character outside the
\* alphabet (after lowercasing); indexToChar throws for every integer outside
\* 0..36; outputIndexToChar throws for every integer outside 1..37.
C11_CodecFailsFast ==
  /\ pc = "done" /\ fn = "charToIndex" /\ ~ValidCharArg(arg) => Threw(ret)
  /\ pc = "done" /\ fn = "indexToChar" /\ arg \notin 0..36 => Threw(ret)
  /\ pc = "done" /\ fn = "outputIndexToChar" /\ arg \notin 1..37 =>
       Threw(ret)

\* all four kinds of bad argument were tried and threw: the empty string, a
\* character outside the alphabet, the index 37 and the output indexes 0
\* and 38
C11_Witness ==
  /\ pc = "done"
  /\ Threw(ret)
  /\ \/ fn = "outputIndexToChar" /\ arg = 38
     \/ fn = "outputIndexToChar" /\ arg = 0
  /\ Threw(charToIndex(<<>>))
  /\ Threw(charToIndex(<<"!">>))
  /\ Threw(indexToChar(37))

-----------------------------------------------------------------------------
(* Claims about getCharacterPath (checked under SpecPath)                  *)

PathDone == pc = "done" /\ fn = "getCharacterPath"

\* C12: for every name validateWaveName accepts, getCharacterPath returns one
\* entry per character, in order; entry k holds the lower case of the k-th
\* character, its index (in 0..36) and outputIndex = index + 1 (in 1..37,
\* never 0).  For every name validateWaveName rejects it throws and returns
\* no path.
C12_PathPerCharacter ==
  PathDone =>
    IF validateWaveName(arg).valid
    THEN /\ ret = Returned(ret.value)
         /\ DOMAIN ret.value = 1..Len(arg)
         /\ \A k \in 1..Len(arg) :
              /\ DOMAIN ret.value[k] = {"char", "index", "outputIndex"}
              /\ ret.value[k].char = <<toLowerCaseChar(arg[k])>>
              /\ ret.value[k].index \in 0..36
              /\ WAVE_CHARS[ret.value[k].index + 1] = toLowerCaseChar(arg[k])
              /\ ret.value[k].outputIndex = ret.value[k].index + 1
              /\ ret.value[k].outputIndex \in 1..37
    ELSE Threw(ret)

\* the path of a name with an upper-case letter and the hyphen
C12_Witness ==
  /\ PathDone
  /\ arg = <<"X", "-", "a">>
  /\ ret.value = << [char |-> <<"x">>, index |-> 23, outputIndex |-> 24],
                    [char |-> <<"-">>, index |-> 36, outputIndex |-> 37],
                    [char |-> <<"a">>, index |-> 0, outputIndex |-> 1] >>

-----------------------------------------------------------------------------
(* Claims about the validators together (checked under SpecValidators)     *)

ValidatorDone ==
  /\ pc = "done"
  /\ fn \in {"validateProtocols", "validateWaveName", "validateDomain"}

\* C13: validateProtocols, validateWaveName and validateDomain never throw:
\* for every argument they return a result object, and its error field is
\* present exactly when valid is false.
C13_ValidatorsReturnResults ==
  ValidatorDone =>
    /\ "threw" \notin DOMAIN ret
    /\ "valid" \in DOMAIN ret
    /\ ret.valid \in BOOLEAN
    /\ DOMAIN ret \subseteq {"valid", "error"}
    /\ "error" \in DOMAIN ret <=> ~ret.valid

\* a domain with an invalid label came back as a result object with an error
C13_Witness ==
  /\ ValidatorDone
  /\ fn = "validateDomain"
  /\ arg = <<"a", ".", "-">>
  /\ DOMAIN ret = {"valid", "error"}
  /\ ~ret.valid
  /\ validateWaveName(<<"a">>) = [valid |-> TRUE]
  /\ DOMAIN validateProtocols(<<GLYPH_BURN>>) = {"valid", "error"}

-----------------------------------------------------------------------------
(* Claims about createWaveMetadata and createZoneUpdate (checked under     *)
(* SpecBuilder)                                                            *)

MetadataDone == pc = "done" /\ fn = "createWaveMetadata"

MetadataReturned == MetadataDone /\ ~ret.threw

\* the caller passed an options object that has the property
Supplied(key) == "options" \in DOMAIN arg /\ key \in DOMAIN arg.options

\* the items of the record's p array
ProtocolList == heap[ret.value.p]

HasMutableBlock == "mutable" \in DOMAIN ret.value

\* C14: when options.mutable is explicitly false the record has p = [2, 11]
\* and no mutable block; otherwise (mutable absent or true) it has
\* p = [2, 5, 11] and a mutable block with allowed = true and
\* fields = ['/app/data/zone'].  MUT (5) is in p exactly when the mutable
\* block is present.
C14_MutabilitySelectsShape ==
  MetadataReturned =>
    /\ IF Supplied("mutable") /\ arg.options.mutable = FALSE
       THEN /\ ProtocolList = <<2, 11>>
            /\ ~HasMutableBlock
       ELSE /\ ProtocolList = <<2, 5, 11>>
            /\ HasMutableBlock
            /\ ret.value.mutable.allowed = TRUE
            /\ ret.value.mutable.fields = <<"/app/data/zone">>
    /\ includes(ProtocolList, 5) <=> HasMutableBlock

\* a record built with mutable: false (and a controller reference, which
\* is left out with the mutable block)
C14_Witness ==
  /\ MetadataReturned
  /\ Supplied("mutable") /\ arg.options.mutable = FALSE
  /\ Supplied("controllerRef")
  /\ ProtocolList = <<GLYPH_NFT, GLYPH_WAVE>>
  /\ DOMAIN ret.value = {"v", "type", "p", "name", "app"}

\* C15: createWaveMetadata throws for every name validateWaveName rejects,
\* whatever the other arguments are; every record it returns carries a name
\* validateWaveName accepts.
C15_InvalidNameThrows ==
  MetadataDone =>
    IF validateWaveName(arg.name).valid
    THEN ~ret.threw /\ validateWaveName(ret.value.name).valid
    ELSE Threw(ret) /\ made = <<>>

\* a name ending with a hyphen, given with a zone and options, threw
C15_Witness ==
  /\ MetadataDone
  /\ arg.name = <<"a", "-">>
  /\ "zone" \in DOMAIN arg
  /\ Supplied("description") /\ Supplied("mutable")
  /\ Threw(ret)
  /\ ret.message = "Invalid name: " \o validateWaveName(arg.name).error

\* C16 as stated: desc equals options.description whenever the option is
\* supplied, mutable.controller equals options.controllerRef whenever the
\* record is mutable and the option is supplied; a field whose option is not
\* supplied is absent.
C16_Original_AttachedWheneverSupplied ==
  MetadataReturned =>
    /\ IF Supplied("description")
       THEN /\ "desc" \in DOMAIN ret.value
            /\ ret.value.desc = arg.options.description
       ELSE "desc" \notin DOMAIN ret.value
    /\ HasMutableBlock =>
         IF Supplied("controllerRef")
         THEN /\ "controller" \in DOMAIN ret.value.mutable
              /\ ret.value.mutable.controller = arg.options.controllerRef
         ELSE "controller" \notin DOMAIN ret.value.mutable

\* the option is supplied and is not the empty string
SuppliedNonEmpty(key) == Supplied(key) /\ arg.options[key] # ""

\* C16: desc equals options.description whenever the option is supplied and
\* not the empty string, mutable.controller equals options.controllerRef
\* whenever the record is mutable and the option is supplied and not the
\* empty string; otherwise the field is absent.
C16_AttachedWhenNonEmpty ==
  MetadataReturned =>
    /\ IF SuppliedNonEmpty("description")
       THEN /\ "desc" \in DOMAIN ret.value
            /\ ret.value.desc = arg.options.description
       ELSE "desc" \notin DOMAIN ret.value
    /\ HasMutableBlock =>
         IF SuppliedNonEmpty("controllerRef")
         THEN /\ "controller" \in DOMAIN ret.value.mutable
              /\ ret.value.mutable.controller = arg.options.controllerRef
         ELSE "controller" \notin DOMAIN ret.value.mutable
    /\ ~HasMutableBlock => "controller" \notin DOMAIN ret.value

\* an empty description went with a controller reference: the record has
\* the controller and no desc
C16_Witness ==
  /\ MetadataReturned
  /\ Supplied("description") /\ arg.options.description = ""
  /\ SuppliedNonEmpty("controllerRef")
  /\ HasMutableBlock
  /\ ret.value.mutable.controller = "controller-ref"
  /\ "desc" \notin DOMAIN ret.value

\* C17: every record has v = 2, type = 'wave_name', app.namespace =
\* 'rxd.wave', app.schema = 'wave_name_v1', name and app.data.name equal to
\* the name argument as given, app.data.parent equal to parentRef (null
\* stays null) and app.data.zone equal to the zone argument (an empty map
\* when it was left out).
C17_FixedFieldsAndArguments ==
  MetadataReturned =>
    /\ ret.value.v = 2
    /\ ret.value.type = "wave_name"
    /\ DOMAIN ret.value.app = {"namespace", "schema", "data"}
    /\ ret.value.app.namespace = "rxd.wave"
    /\ ret.value.app.schema = "wave_name_v1"
    /\ ret.value.name = arg.name
    /\ DOMAIN ret.value.app.data = {"name", "parent", "zone"}
    /\ ret.value.app.data.name = arg.name
    /\ ret.value.app.data.parent = arg.parentRef
    /\ IF "zone" \in DOMAIN arg
       THEN ret.value.app.data.zone = arg.zone
       ELSE heap[ret.value.app.data.zone] = {}

\* a root name with an upper-case letter, built without a zone
C17_Witness ==
  /\ MetadataReturned
  /\ arg.name = <<"X", "a">>
  /\ arg.parentRef = null
  /\ "zone" \notin DOMAIN arg
  /\ ret.value.name = <<"X", "a">>
  /\ ret.value.app.data.parent = null
  /\ heap[ret.value.app.data.zone] = {}

ZoneUpdateDone == pc = "done" /\ fn = "createZoneUpdate"

\* C18: createZoneUpdate never fails and validates nothing: for every
\* targetRef, updates and controllerRef it returns exactly {v: 2, schema:
\* 'glyph_update_v1', target: targetRef, update: {op: 'merge', path:
\* '/app/data/zone', value: updates}, auth: {controller: controllerRef}}.
C18_ZoneUpdateShape ==
  ZoneUpdateDone =>
    ret = Returned([v |-> 2,
                    schema |-> "glyph_update_v1",
                    target |-> arg.targetRef,
                    update |-> [op |-> "merge",
                                path |-> "/app/data/zone",
                                value |-> arg.updates],
                    auth |-> [controller |-> arg.controllerRef]])

\* an update with an empty target and an empty controller was built all
\* the same
C18_Witness ==
  /\ ZoneUpdateDone
  /\ arg.targetRef = "" /\ arg.controllerRef = ""
  /\ ~ret.threw
  /\ ret.value.target = "" /\ ret.value.auth.controller = ""
  /\ heap[ret.value.update.value] = {}

-----------------------------------------------------------------------------
(* Claims about what calls and clients leave unchanged (checked under      *)
(* SpecClient and SpecCalls)                                               *)

\* a WaveMetadata record (a zone update has no p)
IsMetadata(record) == "p" \in DOMAIN record

Metadata == {i \in 1..Len(made) : IsMetadata(made[i])}

\* every table has the content it was loaded with
TablesUnchanged == \A table \in DOMAIN Tables : heap[table] = Tables[table]

\* the p array of a record is no table and no other record's p array
ListsAreFresh ==
  \A i \in Metadata :
    /\ made[i].p \notin DOMAIN Tables
    /\ \A j \in Metadata \ {i} : made[j].p # made[i].p

\* a step that changes the p array of one record changes no table and no
\* other record's p array
ListChangeStaysLocal ==
  \A i \in Metadata :
    heap'[made[i].p] # heap[made[i].p] =>
      /\ \A table \in DOMAIN Tables : heap'[table] = heap[table]
      /\ \A j \in Metadata \ {i} : heap'[made[j].p] = heap[made[j].p]

\* createWaveMetadata returns the same list whatever happened before (a
\* client that goes on passes either no options or mutable: false)
SameListAgain ==
  pc = "call" /\ pc' = "done" /\ fn = "createWaveMetadata" /\ ~ret'.threw =>
    heap'[ret'.value.p] =
      IF "options" \in DOMAIN arg
      THEN <<GLYPH_NFT, GLYPH_WAVE>>
      ELSE <<GLYPH_NFT, GLYPH_MUT, GLYPH_WAVE>>

\* C19: after any sequence of calls of the validators, the codec and the
\* builders, and of changes a client makes to what it got back, the constant
\* tables (WAVE_CHARS, WaveProtocols, PROTOCOL_REQUIREMENTS,
\* PROTOCOL_EXCLUSIONS, PROTOCOLS_REQUIRE_BASE) are unchanged, so a repeated
\* call gives an equal result; the p list of a record is a fresh copy, and
\* changing it changes neither WaveProtocols nor the p of any other record.
C19_TablesUnchanged ==
  /\ [](TablesUnchanged /\ ListsAreFresh)
  /\ [][ListChangeStaysLocal /\ SameListAgain]_vars

\* two mutable records were built, the client emptied the p of the first,
\* and the second still has the list of the table
C19_Witness ==
  /\ pc = "done"
  /\ Len(made) = 2
  /\ Metadata = {1, 2}
  /\ heap[made[1].p] = <<>>
  /\ heap[made[2].p] = WaveProtocols.WAVE_NAME
  /\ heap.WAVE_NAME = <<GLYPH_NFT, GLYPH_MUT, GLYPH_WAVE>>

\* what a record says: the record with its p array and its map read out
Content(record, h) ==
  IF IsMetadata(record)
  THEN [record EXCEPT !.p = h[record.p],
                      !.app.data.zone = h[record.app.data.zone]]
  ELSE [record EXCEPT !.update.value = h[record.update.value]]

\* C20: a record is immutable once built: after createWaveMetadata or
\* createZoneUpdate has returned it, no step changes what it says, neither a
\* later call of a function of the package nor a later change the caller
\* makes to the zone map (the updates map) it passed in.
C20_RecordsKeepContent ==
  [][\A i \in 1..Len(made) :
       Content(made[i], heap') = Content(made[i], heap)]_vars

-----------------------------------------------------------------------------
(* Claims about the flag helpers (checked under SpecFlags)                 *)

\* the flags of the table other than the given one
OtherFlags(x) == FlagValues \ {x}

\* C21: for every flags value f and every non-zero flag x of ScriptFlags,
\* hasFlag(setFlag(f, x), x) is true, hasFlag(clearFlag(f, x), x) is false,
\* setFlag and clearFlag are idempotent, and for every other flag y of the
\* table hasFlag(setFlag(f, x), y) = hasFlag(clearFlag(f, x), y)
\* = hasFlag(f, y).
C21_FlagsAreIndependentBits ==
  /\ pc = "done" /\ fn = "setFlag" /\ arg.flag # 0 =>
       /\ hasFlag(ret, arg.flag)
       /\ setFlag(ret, arg.flag) = ret
       /\ \A y \in OtherFlags(arg.flag) :
            hasFlag(ret, y) = hasFlag(arg.flags, y)
  /\ pc = "done" /\ fn = "clearFlag" /\ arg.flag # 0 =>
       /\ ~hasFlag(ret, arg.flag)
       /\ clearFlag(ret, arg.flag) = ret
       /\ \A y \in OtherFlags(arg.flag) :
            hasFlag(ret, y) = hasFlag(arg.flags, y)
  /\ pc = "done" /\ fn = "hasFlag" /\ arg.flag # 0 =>
       /\ ret = (Bits(arg.flag) \subseteq Bits(arg.flags))
       /\ Cardinality(Bits(arg.flag)) = 1

\* the highest flag was cleared from a value with every bit set but one:
\* the result is negative, has lost the flag and kept the flag below it
C21_Witness ==
  /\ pc = "done" /\ fn = "clearFlag"
  /\ arg.flag = 134217728
  /\ arg.flags = -2
  /\ ret = -134217730
  /\ hasFlag(ret, 67108864)
  /\ ~hasFlag(ret, 134217728)
  /\ hasFlag(setFlag(0, 134217728), 134217728)

-----------------------------------------------------------------------------
(* Claims about the opcodes (checked under SpecOpcodes)                    *)

OpcodeNameDone == pc = "done" /\ fn = "getOpcodeName"

\* the names the table defines
DefinedNames == {Opcodes[i][1] : i \in 1..Len(Opcodes)}

\* C22 as stated: for every name N defined in Opcodes,
\* getOpcodeName(Opcodes[N]) returns N.
C22_Original_ReverseOfTable ==
  OpcodeNameDone => \A i \in entriesOf(arg) : ret = Opcodes[i][1]

\* the names whose value is defined again under a later name
LaterAlias ==
  [OP_0 |-> "OP_FALSE",
   OP_1 |-> "OP_TRUE",
   OP_CHECKLOCKTIMEVERIFY |-> "OP_NOP2",
   OP_CHECKSEQUENCEVERIFY |-> "OP_NOP3"]

\* C22: for every name N defined in Opcodes, getOpcodeName(Opcodes[N])
\* returns a name of the table that has the value of N: N itself, unless N is
\* OP_0, OP_1, OP_CHECKLOCKTIMEVERIFY or OP_CHECKSEQUENCEVERIFY, for which it
\* returns the alias written later in the table (OP_FALSE, OP_TRUE, OP_NOP2,
\* OP_NOP3).
C22_ReverseUpToAlias ==
  OpcodeNameDone =>
    \A i \in entriesOf(arg) :
      /\ ret \in DefinedNames
      /\ OpcodeOf(ret) = arg
      /\ ret = IF Opcodes[i][1] \in DOMAIN LaterAlias
               THEN LaterAlias[Opcodes[i][1]]
               ELSE Opcodes[i][1]

\* the value of OP_CHECKLOCKTIMEVERIFY came back as OP_NOP2
C22_Witness ==
  /\ OpcodeNameDone
  /\ arg = OpcodeOf("OP_CHECKLOCKTIMEVERIFY")
  /\ ret = "OP_NOP2"
  /\ getOpcodeName(OpcodeOf("OP_CHECKSIG")) = "OP_CHECKSIG"

\* C29: over the byte values 0..255, isStateSeparatorOpcode,
\* isIntrospectionOpcode and isReferenceOpcode are pairwise disjoint, each of
\* them implies isRadiantOpcode, and every value for which isRadiantOpcode is
\* true has an entry in the Opcodes table (getOpcodeName returns a name of
\* the table for it, not an UNKNOWN_ name).
C29_OpcodeCategoriesConsistent ==
  pc = "done" /\ arg \in 0..255 =>
    /\ fn = "isStateSeparatorOpcode" /\ ret =>
         /\ ~isIntrospectionOpcode(arg) /\ ~isReferenceOpcode(arg)
         /\ isRadiantOpcode(arg)
    /\ fn = "isIntrospectionOpcode" /\ ret =>
         /\ ~isStateSeparatorOpcode(arg) /\ ~isReferenceOpcode(arg)
         /\ isRadiantOpcode(arg)
    /\ fn = "isReferenceOpcode" /\ ret =>
         /\ ~isStateSeparatorOpcode(arg) /\ ~isIntrospectionOpcode(arg)
         /\ isRadiantOpcode(arg)
    /\ fn = "isRadiantOpcode" /\ ret =>
         /\ entriesOf(arg) # {}
         /\ getOpcodeName(arg) \in DefinedNames
    /\ fn = "getOpcodeName" /\ entriesOf(arg) = {} =>
         ret \notin DefinedNames

\* a Radiant opcode of none of the three categories, and the unknown name
\* of the value after the last Radiant opcode
C29_Witness ==
  /\ pc = "done" /\ fn = "isRadiantOpcode"
  /\ arg = \Hce
  /\ ret = TRUE
  /\ getOpcodeName(arg) = "OP_SHA512_256"
  /\ getOpcodeName(\Hee) = "UNKNOWN_0xee"
  /\ getOpcodeName(1) = "UNKNOWN_0x01"

-----------------------------------------------------------------------------
(* Claims about the table of protocols that need a base                    *)

\* C23: the protocols that cannot exist alone (PROTOCOLS_REQUIRE_BASE, which
\* the cannot-exist-alone rule of validateProtocols consults) are exactly
\* DMINT, MUT, BURN, CONTAINER and WAVE, the ids [4, 5, 6, 7, 11].
C23_RequireBaseIsFiveIds ==
  ProtocolsDone =>
    /\ PROTOCOLS_REQUIRE_BASE = <<4, 5, 6, 7, 11>>
    /\ heap.PROTOCOLS_REQUIRE_BASE = <<4, 5, 6, 7, 11>>

-----------------------------------------------------------------------------
(* Claims about parseLabels and joinLabels (checked under SpecLabels)      *)

\* the positions of the separators that stay when the empty segments go: a
\* separator stays when a label begins right after it and one ended
\* somewhere before it
KeptSeparators(d) ==
  {i \in 1..Len(d) :
     /\ d[i] = "."
     /\ i < Len(d) /\ d[i + 1] # "."
     /\ \E j \in 1..(i - 1) : d[j] # "."}

\* d with its empty segments (leading, trailing and doubled dots) removed
WithoutEmptySegments(d) ==
  LET keep == {i \in 1..Len(d) : d[i] # "." \/ i \in KeptSeparators(d)}
      nth(k) == CHOOSE i \in keep : Cardinality({j \in keep : j <= i}) = k
  IN  [k \in 1..Cardinality(keep) |-> d[nth(k)]]

\* C24: for every list L of non-empty labels none of which contains '.',
\* parseLabels(joinLabels(L)) = L; for every string d, parseLabels(d) has no
\* empty label and joinLabels(parseLabels(d)) is d with its empty segments
\* (leading, trailing and doubled dots) removed.
C24_LabelsRoundTrip ==
  /\ pc = "done" /\ fn = "joinLabels"
       /\ (\A k \in 1..Len(arg) :
             Len(arg[k]) > 0 /\ ~includes(arg[k], ".")) =>
       parseLabels(ret) = arg
  /\ pc = "done" /\ fn = "parseLabels" =>
       /\ \A k \in 1..Len(ret) : Len(ret[k]) > 0
       /\ joinLabels(ret) = WithoutEmptySegments(arg)

\* three labels joined and parsed back, and a domain with a doubled and a
\* trailing dot
C24_Witness ==
  /\ pc = "done" /\ fn = "joinLabels"
  /\ arg = << <<"a">>, <<"a", "-">>, <<"-">> >>
  /\ ret = <<"a", ".", "a", "-", ".", "-">>
  /\ parseLabels(ret) = arg
  /\ joinLabels(parseLabels(<<"a", ".", ".", "a", ".">>)) = <<"a", ".", "a">>

-----------------------------------------------------------------------------
(* Claims relating the builders and the limits to validateProtocols and    *)
(* validateDomain                                                          *)

\* C25: every protocol-id list createWaveMetadata puts in a record is a
\* combination validateProtocols accepts, for both settings of the mutable
\* option.
C25_BuiltListsAreValid ==
  MetadataReturned => validateProtocols(ProtocolList).valid

\* C26: the 'cannot exist alone' error is returned for exactly one input,
\* the single-element list [BURN]; every other single-element input whose id
\* is in PROTOCOLS_REQUIRE_BASE fails earlier with a 'requires' error, and no
\* input of another length gets the error.
C26_AloneErrorOnlyForBurn ==
  ProtocolsDone =>
    /\ (~ret.valid /\ IsAloneError(ret.error)) <=> arg = <<GLYPH_BURN>>
    /\ Len(arg) = 1 /\ includes(PROTOCOLS_REQUIRE_BASE, arg[1])
         /\ arg[1] # GLYPH_BURN =>
         ~ret.valid /\ IsRequiresError(ret.error)
    /\ Len(arg) # 1 /\ ~ret.valid => ~IsAloneError(ret.error)

\* [BURN] gets the error, [WAVE] the 'requires' one
C26_Witness ==
  /\ ProtocolsDone
  /\ arg = <<GLYPH_BURN>>
  /\ ret = [valid |-> FALSE, error |-> "Protocol GLYPH_BURN cannot exist alone"]
  /\ validateProtocols(<<GLYPH_WAVE>>).error
       = "Protocol GLYPH_WAVE requires GLYPH_NFT"

\* the ids a caller may pass that the enumeration does not have
UnknownIds == {u \in 0..12 : \A k \in 1..Len(GlyphProtocol) : GlyphProtocol[k][2] # u}

\* C27: validateProtocols never rejects an input because of an id outside
\* 1..11 nor because of its length: appending such an id to any input leaves
\* .valid as it was, the single-element input of such an id is valid, and an
\* input longer than GlyphLimits.MAX_PROTOCOLS is valid exactly when its ids
\* break none of the rules.
C27_UnknownIdsAndLengthIgnored ==
  ProtocolsDone =>
    /\ \A u \in UnknownIds :
         validateProtocols(Append(arg, u)).valid = ret.valid
    /\ Len(arg) = 1 /\ arg[1] \in UnknownIds => ret.valid
    /\ Len(arg) > GlyphLimits.MAX_PROTOCOLS =>
         (ret.valid <=> /\ ~BreaksExclusion(arg)
                        /\ ~BreaksRequirement(arg)
                        /\ ~BreaksBurn(arg))

\* seventeen ids, NFT and then sixteen times an id past the enumeration
C27_Witness ==
  /\ ProtocolsDone
  /\ Len(arg) = GlyphLimits.MAX_PROTOCOLS + 1
  /\ arg[1] = GLYPH_NFT
  /\ \A i \in 2..Len(arg) : arg[i] = 12
  /\ ret = [valid |-> TRUE]
  /\ ~validateProtocols(<<GLYPH_BURN>>).valid
  /\ ~validateProtocols(<<GLYPH_BURN, 12>>).valid

\* C28: the WAVE subdomain depth limit is a single value:
\* WaveLimits.MAX_SUBDOMAIN_DEPTH, which validateDomain enforces, equals
\* GlyphDefaults.MAX_SUBDOMAIN_DEPTH (5), so validateDomain rejects every
\* domain with more labels than GlyphDefaults.MAX_SUBDOMAIN_DEPTH.
C28_OneDepthLimit ==
  pc = "done" /\ fn = "validateDomain" =>
    /\ WaveLimits.MAX_SUBDOMAIN_DEPTH = GlyphDefaults.MAX_SUBDOMAIN_DEPTH
    /\ Len(parseLabels(arg)) > GlyphDefaults.MAX_SUBDOMAIN_DEPTH => ~ret.valid

-----------------------------------------------------------------------------
(* Claims about the network helpers (checked under SpecNetworks)           *)

\* C30: the network predicates agree between a network's name and its
\* parameter object: for every string s for which getNetwork(s) returns a
\* network n (the lookup is case-insensitive and knows the alias 'livenet'),
\* isMainnet(s) = isMainnet(n), isTestnet(s) = isTestnet(n) and
\* isRegtest(s) = isRegtest(n).
C30_NameAndObjectAgree ==
  pc = "done" /\ fn = "getNetwork" /\ ret # undefined =>
    /\ isMainnet(String(arg)) = isMainnet(ret)
    /\ isTestnet(String(arg)) = isTestnet(ret)
    /\ isRegtest(String(arg)) = isRegtest(ret)

=============================================================================
